---------------------------- MODULE Spec2Model ----------------------------
(***************************************************************************)
(* Model of the ESET PROTECT management client: the token-bucket rate      *)
(* limiter, the OAuth2 credential cache and the retrying request pipeline  *)
(* of EsetProtectClient (src/unnamed/part_000), and the batch orchestrator *)
(* and the health evaluator of EsetManager (eset-manager.ts).              *)
(*                                                                         *)
(* Numbers.  The clock is Date.now(), in milliseconds.  The limiter's      *)
(* floating-point fields (tokens, adaptiveMultiplier) are fixed-point      *)
(* numbers in units of 1/Scale; a product that is not a multiple of        *)
(* 1/Scale is rounded to the nearest unit, as an IEEE double product is    *)
(* rounded to the nearest double.                                          *)
(*                                                                         *)
(* Scheduling.  JavaScript runs one callback at a time: the code between   *)
(* two awaits is one atomic action.  A setTimeout sleep resumes at any     *)
(* clock value that is at least the requested wake-up time.                *)
(***************************************************************************)
EXTENDS Integers, Sequences, FiniteSets, TLC

(***************************************************************************)
(* Bounds of the model (not program constants).                            *)
(***************************************************************************)
MaxNow == 10000        \* the clock stops advancing here (milliseconds)
LimHorizon == 3000     \* the same, for the bare limiter
MaxSignals == 3        \* consecutive adjustForRateLimit calls followed on the bare multiplier
MaxResets == 8         \* consecutive resetAdaptive calls followed on the bare multiplier
MaxAcquires == 4       \* acquire calls made on the bare limiter
MaxTunings == 3        \* adjustForRateLimit / resetAdaptive calls made on the bare limiter
MaxCalls == 2          \* pipeline calls started by each caller
MaxConcurrentCalls == 1 \* the same, for each of the concurrent callers
MaxFaults == 1         \* failed transport calls in a run of concurrent callers
MaxDevices == 4        \* device IDs passed to batchHealthCheck
MaxEvaluations == 2    \* evaluations of one snapshot
MaxTargets == 3        \* device IDs passed to uninstallAndReinstall

Procs == {"a", "b"}    \* concurrent callers sharing one client and its limiter
Sequential == {"a"}    \* the caller of the single-caller runs

(***************************************************************************)
(* Configuration (EsetConfig.rateLimiting) and units.                      *)
(***************************************************************************)
Scale == 1000                          \* units per token, and per 1.0 of multiplier
DefaultRequestsPerMinute == 60
MaxRetries == 3                        \* makeHttpRequest: maxRetries
BaseDelay == 1000                      \* makeHttpRequest: baseDelay (ms)
SafetyMargin == 60000                  \* authenticate: refresh this long before expiry (ms)
RefillPerMs == (DefaultRequestsPerMinute * Scale) \div (60 * 1000)
BurstSizes == {1, 2}                   \* config.rateLimiting.burstSize values explored
Second == 1000                         \* milliseconds
RetryAfterValues == {1, 60}            \* retry-after seconds a rate-limit signal carries
RetryAfterHeaders == {0, 1}            \* parseInt of the retry-after header; 0: absent, unparsable or zero
Statuses == {200, 404, 429, 503}       \* HTTP status codes the remote API answers with
NetworkFailure == 0                    \* the transport's 'error' event instead of a status
Lifetimes == {60, 70}                  \* expires_in (seconds) the issuer grants

VARIABLES
    now,                 \* Date.now()
    maxTokens,           \* TokenBucketRateLimiter.maxTokens (units)
    tokens,              \* TokenBucketRateLimiter.tokens (units)
    lastRefill,          \* TokenBucketRateLimiter.lastRefill
    adaptiveMultiplier,  \* TokenBucketRateLimiter.adaptiveMultiplier (units)
    token,               \* EsetProtectClient.token (NoToken when null)
    tokenExpiresAt,      \* EsetProtectClient.tokenExpiresAt
    pc,                  \* per caller: where its coroutine is suspended
    lvl,                 \* per caller: "req" in its own request, "exch" in the credential exchange it issued
    attempt,             \* per caller and level: makeHttpRequest's loop variable
    wakeAt,              \* per caller: clock value its pending timer is due
    effCost,             \* per caller: the local effectiveCost of its suspended acquire
    hist,                \* history, per caller and level: transport calls, outcomes and result of the request
    lastOp,              \* history: the limiter operation that completed last
    signals,             \* history: consecutive rate-limit signals since the multiplier was 1.0 (-1: not applicable)
    resets,              \* history: consecutive resetAdaptive calls
    calls,               \* history: calls made so far, per operation
    auditConfig,         \* EsetConfig.auditLog
    auditLog,            \* per caller: the entries AuditLogger.log wrote during its current call
    op,                  \* per caller: the public operation whose call has just ended
    deviceIds,           \* batchHealthCheck: the deviceIds argument
    options,             \* batchHealthCheck: the options argument
    batchStart,          \* batchHealthCheck: the outer loop variable i
    chunkStart,          \* batchHealthCheck: offset in the batch of the chunk being awaited
    opState,             \* batchHealthCheck: per input position, the state of its promise
    results,             \* batchHealthCheck: the results array
    batchResult,         \* batchHealthCheck: what the call returned (NoBatchResult before)
    bpc,                 \* batchHealthCheck: where the call is suspended
    thresholds,          \* performHealthCheck: options.thresholds
    devices,             \* performHealthCheck: devicesResponse.devices
    fetched,             \* performHealthCheck: per device, what its health promise settled with
    healthResult,        \* performHealthCheck: what the call returned (NoHealthResult before)
    hpc,                 \* performHealthCheck: where the call is suspended
    snapshot,            \* rule evaluation: the device snapshot, health record and thresholds evaluated
    evaluations,         \* rule evaluation: history of the evaluations of the snapshot
    wpc,                 \* uninstallAndReinstall: where the call is suspended
    ppc,                 \* waitForTaskCompletion / monitorTask: where the loop is suspended
    loop,                \* the polling loop running: its kind and options
    elapsed,             \* Date.now() - startTime of the polling loop (ms), up to its timeout
    observed,            \* the task status the last answered getTaskStatus of the loop carried
    rows,                \* the remote task's result rows once it is terminal: the devices that failed
    targets,             \* uninstallAndReinstall: deviceIds (reassigned by the filter)
    created,             \* history: the createTask requests made, in order
    invoked,             \* history: the client operations the manager has called
    taskOutcome          \* what the manager operation returned or threw (NoOutcome before)

limVars == <<maxTokens, tokens, lastRefill, adaptiveMultiplier>>
credVars == <<token, tokenExpiresAt>>
procVars == <<pc, lvl, attempt, wakeAt, effCost, hist>>
histVars == <<lastOp, signals, resets, calls>>
auditVars == <<auditConfig, auditLog, op>>
clientVars == <<now, maxTokens, tokens, lastRefill, adaptiveMultiplier, token,
                tokenExpiresAt, pc, lvl, attempt, wakeAt, effCost, hist, lastOp,
                signals, resets, calls, auditVars>>
orchVars == <<deviceIds, options, batchStart, chunkStart, opState, results,
              batchResult, bpc>>
evalVars == <<thresholds, devices, fetched, healthResult, hpc>>
ruleVars == <<snapshot, evaluations>>
taskVars == <<wpc, ppc, loop, elapsed, observed, rows, targets, created, invoked, taskOutcome>>
managerVars == <<orchVars, evalVars, ruleVars, taskVars>>
vars == <<now, maxTokens, tokens, lastRefill, adaptiveMultiplier, token,
          tokenExpiresAt, pc, lvl, attempt, wakeAt, effCost, hist, lastOp,
          signals, resets, calls, auditConfig, auditLog, op, deviceIds, options, batchStart, chunkStart,
          opState, results, batchResult, bpc, thresholds, devices, fetched,
          healthResult, hpc, snapshot, evaluations, wpc, ppc, loop, elapsed,
          observed, rows, targets, created, invoked, taskOutcome>>

Min(a, b) == IF a <= b THEN a ELSE b
Max(a, b) == IF a >= b THEN a ELSE b

\* a * n / d rounded to the nearest unit (ties up), for a, n >= 0 and d > 0
MulRound(a, n, d) == (2 * a * n + d) \div (2 * d)

\* smallest integer >= a / b, for a >= 0 and b > 0
CeilDiv(a, b) == (a + b - 1) \div b

(***************************************************************************)
(* TokenBucketRateLimiter                                                  *)
(***************************************************************************)

\* refill() without Math.min(this.maxTokens, ...)
RefilledUncapped(t, last, n) == t + (n - last) * RefillPerMs

\* refill(): tokens after the lazy refill at clock value n
Refilled(t, last, n) == Min(maxTokens, t + (n - last) * RefillPerMs)

\* acquire(): effectiveCost = cost * adaptiveMultiplier
EffectiveCost(cost) == cost * adaptiveMultiplier

\* the debit made at once whatever the bucket holds
AdmitsAlways(t, cost) == TRUE

\* acquire(): the immediate-debit test
Admits(t, cost) == t >= cost

\* the wait computed for the whole cost, whatever the bucket holds
WaitTimeFull(cost, t) == CeilDiv(cost, RefillPerMs)

\* acquire(): waitTime in ms for a deficit; the timer is due no earlier
WaitTime(cost, t) == CeilDiv(cost - t, RefillPerMs)

\* adjustForRateLimit() without Math.min(2.0, ...)
AdjustedUncapped(m, retryAfter) == MulRound(m, 3, 2)

\* adjustForRateLimit(retryAfter): the new multiplier (retryAfter is unused)
AdjustedMultiplier(m, retryAfter) == Min(2 * Scale, MulRound(m, 3, 2))

\* resetAdaptive() as a hard reset
HardReset(m) == Scale

\* resetAdaptive() without Math.max(1.0, ...)
DecayedUnfloored(m) == MulRound(m, 9, 10)

\* resetAdaptive(): the new multiplier
DecayedMultiplier(m) == Max(Scale, MulRound(m, 9, 10))

\* acquire() up to its first suspension, by caller p; `next` is where p
\* continues once admitted.
AcquireEnter(p, next) ==
    LET t == Refilled(tokens, lastRefill, now)
        c == EffectiveCost(1)
    IN  /\ lastRefill' = now
        /\ IF Admits(t, c)
             THEN /\ tokens' = t - c
                  /\ pc' = [pc EXCEPT ![p] = next]
                  /\ UNCHANGED <<wakeAt, effCost>>
             ELSE /\ tokens' = t
                  /\ pc' = [pc EXCEPT ![p] = "acqWait"]
                  /\ wakeAt' = [wakeAt EXCEPT ![p] = now + WaitTime(c, t)]
                  /\ effCost' = [effCost EXCEPT ![p] = c]
        /\ UNCHANGED <<maxTokens, adaptiveMultiplier>>

\* acquire() after its timer fired: refill again, then debit without a test
AcquireResume(p, next) ==
    /\ pc[p] = "acqWait"
    /\ now >= wakeAt[p]
    /\ tokens' = Refilled(tokens, lastRefill, now) - effCost[p]
    /\ lastRefill' = now
    /\ pc' = [pc EXCEPT ![p] = next]
    /\ UNCHANGED <<maxTokens, adaptiveMultiplier, wakeAt, effCost>>

(***************************************************************************)
(* The clock.                                                              *)
(***************************************************************************)
Sleeping(p) == pc[p] \in {"acqWait", "sleep"}
Due == {wakeAt[p] : p \in {q \in Procs : Sleeping(q) /\ wakeAt[q] > now}}

\* A caller whose continuation is queued as a microtask: it runs before any
\* timer or transport event is delivered, and before the clock moves on.
Runnable(p) == pc[p] \in {"auth", "creds", "send", "done"}
Quiescent == \A p \in Procs : ~Runnable(p)

\* the next whole second
NextSecond == {(now \div Second + 1) * Second}

\* the instant the cached token stops being usable
Expiry == IF tokenExpiresAt - SafetyMargin > now THEN {tokenExpiresAt - SafetyMargin} ELSE {}

\* time passes, to a pending timer's due time or to one of the instants given
Advance(instants, horizon) ==
    /\ Quiescent
    /\ \E n \in Due \cup instants :
          /\ n <= horizon
          /\ now' = n
    /\ UNCHANGED <<limVars, credVars, procVars, histVars, auditVars>>
    /\ UNCHANGED managerVars

(***************************************************************************)
(* Initial state: the constructors of TokenBucketRateLimiter and           *)
(* EsetProtectClient.                                                      *)
(***************************************************************************)
Levels == {"req", "exch"}
NoToken == [id |-> 0, expires_in |-> 0]
NoResult == [name |-> "none", statusCode |-> 0, errorCode |-> "", retryAfter |-> 0]
NoHist ==
    [acquired |-> 0, checked |-> 0, exchanges |-> 0, sent |-> 0, kind |-> "none",
     last |-> NoResult, result |-> NoResult]

(***************************************************************************)
(* EsetManager before any of its operations is called.                     *)
(***************************************************************************)
NoOptions == [batchSize |-> 0, maxConcurrency |-> 0]
NoBatchResult ==
    [status |-> "none", progress |-> [total |-> 0, processed |-> 0, succeeded |-> 0, failed |-> 0],
     results |-> <<>>]
NoThresholds ==
    [offlineDeviceHours |-> 0, outdatedDefinitionDays |-> 0, threatCountCritical |-> 0,
     moduleErrorThreshold |-> 0]
NoSummary ==
    [totalDevices |-> 0, healthyDevices |-> 0, warningDevices |-> 0, criticalDevices |-> 0,
     offlineDevices |-> 0]
NoHealthResult == [returned |-> FALSE, summary |-> NoSummary, deviceDetails |-> <<>>, issues |-> <<>>]

\* no batchHealthCheck call has been made
OrchIdle ==
    /\ deviceIds = <<>>
    /\ options = NoOptions
    /\ batchStart = 0
    /\ chunkStart = 0
    /\ opState = <<>>
    /\ results = <<>>
    /\ batchResult = NoBatchResult
    /\ bpc = "idle"

\* no performHealthCheck call has been made
EvalIdle ==
    /\ thresholds = NoThresholds
    /\ devices = <<>>
    /\ fetched = <<>>
    /\ healthResult = NoHealthResult
    /\ hpc = "idle"

NoSnapshot == [taken |-> FALSE, device |-> <<>>, health |-> <<>>, thresholds |-> NoThresholds]

\* no snapshot has been evaluated
RuleIdle ==
    /\ snapshot = NoSnapshot
    /\ evaluations = <<>>

NoLoop == [kind |-> "none", timeoutMs |-> 0, intervalMs |-> 0, timer |-> 0]
NoRows == [known |-> FALSE, failed |-> {}]
NoOutcome == [kind |-> "none", value |-> "none", uninstallTask |-> "none", reinstallTask |-> "none"]

\* no task operation of the manager has been called
TaskIdle ==
    /\ wpc = "idle"
    /\ ppc = "idle"
    /\ loop = NoLoop
    /\ elapsed = 0
    /\ observed = "none"
    /\ rows = NoRows
    /\ targets = <<>>
    /\ created = <<>>
    /\ invoked = {}
    /\ taskOutcome = NoOutcome

ClientInit ==
    /\ now = 0
    /\ maxTokens \in {b * Scale : b \in BurstSizes}
    /\ tokens = maxTokens
    /\ lastRefill = now
    /\ adaptiveMultiplier = Scale
    /\ token = NoToken
    /\ tokenExpiresAt = 0
    /\ pc = [p \in Procs |-> "idle"]
    /\ lvl = [p \in Procs |-> "req"]
    /\ attempt = [p \in Procs |-> [l \in Levels |-> 0]]
    /\ wakeAt = [p \in Procs |-> 0]
    /\ effCost = [p \in Procs |-> 0]
    /\ hist = [p \in Procs |-> [l \in Levels |-> NoHist]]
    /\ lastOp = "none"
    /\ signals = 0
    /\ resets = 0
    /\ calls = [acquire |-> 0, tuning |-> 0, faults |-> 0,
                request |-> [p \in Procs |-> 0]]
    /\ auditConfig \in [enabled : BOOLEAN, tamperDetection : {TRUE}]
    /\ auditLog = [p \in Procs |-> <<>>]
    /\ op = [p \in Procs |-> "none"]

Init == ClientInit /\ OrchIdle /\ EvalIdle /\ RuleIdle /\ TaskIdle

(***************************************************************************)
(* Errors (eset-types: EsetApiError and its subclasses) and results.       *)
(***************************************************************************)
Error(name, statusCode, errorCode, retryAfter) ==
    [name |-> name, statusCode |-> statusCode, errorCode |-> errorCode,
     retryAfter |-> retryAfter]

EsetApiError(statusCode, errorCode) == Error("EsetApiError", statusCode, errorCode, 0)
EsetRateLimitError(retryAfter) ==
    Error("EsetRateLimitError", 429, "RATE_LIMIT_EXCEEDED", retryAfter)
EsetAuthenticationError ==
    Error("EsetAuthenticationError", 401, "AUTHENTICATION_FAILED", 0)
MaxRetriesExceeded == EsetApiError(0, "")
Resolved == Error("", 0, "", 0)            \* the promise resolved: no error

\* httpRequest(): what the promise settles with, for a status (or a network
\* failure) and the parsed retry-after header
HttpRequest(status, header) ==
    IF status = NetworkFailure THEN EsetApiError(0, "NETWORK_ERROR")
    ELSE IF status = 429 THEN EsetRateLimitError(IF header # 0 THEN header ELSE 60)
    ELSE IF status >= 400 THEN EsetApiError(status, "HTTP_ERROR")
    ELSE Resolved

\* the rate-limit test widened to the server errors
IsThrottled(e) == e.name = "EsetRateLimitError" \/ (e.statusCode # 0 /\ e.statusCode >= 500)

\* makeHttpRequest(): error instanceof EsetRateLimitError
IsRateLimit(e) == e.name = "EsetRateLimitError"

\* the 5xx test widened to every error status
IsErrorStatus(e) == e.statusCode # 0 /\ e.statusCode >= 400

\* makeHttpRequest(): error instanceof EsetApiError && error.statusCode && error.statusCode >= 500
IsServerError(e) ==
    /\ e.name \in {"EsetApiError", "EsetRateLimitError", "EsetAuthenticationError"}
    /\ e.statusCode # 0
    /\ e.statusCode >= 500

\* the loop condition that allows one attempt more
InBudgetOneMore(a) == a <= MaxRetries + 1

\* makeHttpRequest(): the loop condition attempt <= maxRetries
InBudget(a) == a <= MaxRetries

\* the 5xx retry condition off by one
RetriesServerErrorAlways(a) == a <= MaxRetries

\* makeHttpRequest(): the 5xx retry condition attempt < maxRetries
RetriesServerError(a) == a < MaxRetries

\* the rate-limit branch guarded like the 5xx branch
RetriesRateLimitInBudget(a) == a < MaxRetries

\* makeHttpRequest(): the rate-limit branch continues whatever the attempt
RetriesRateLimit(a) == TRUE

\* makeHttpRequest(): baseDelay * Math.pow(2, attempt)
Backoff(a) == BaseDelay * 2^a

\* makeHttpRequest(): the sleep after a rate-limit signal
RateLimitDelay(e, a) == IF e.retryAfter # 0 THEN e.retryAfter * 1000 ELSE Backoff(a)

\* makeHttpRequest(): the penalty fed to adjustForRateLimit (error.retryAfter || 60)
Penalty(e) == IF e.retryAfter # 0 THEN e.retryAfter ELSE 60

\* the validity test with its comparison inverted
TokenValidInverted == token # NoToken /\ now > tokenExpiresAt - SafetyMargin

\* authenticate(): this.token && Date.now() < this.tokenExpiresAt - 60000
TokenValid == token # NoToken /\ now < tokenExpiresAt - SafetyMargin

\* the expiry computed without the conversion to milliseconds
ExpiresAtSeconds(t) == now + t.expires_in

\* authenticate(): Date.now() + response.expires_in * 1000
ExpiresAt(t) == now + t.expires_in * 1000

(***************************************************************************)
(* History of a request: its transport calls, whether every attempt so far *)
(* ended the same way, the outcome of its last attempt and its result.     *)
(***************************************************************************)
OutcomeKind(e) ==
    IF e = Resolved THEN "success"
    ELSE IF e.name = "EsetRateLimitError" THEN "rate_limit"
    ELSE IF e.name = "EsetAuthenticationError" THEN "auth_failure"
    ELSE IF e.errorCode = "NETWORK_ERROR" THEN "network"
    ELSE IF e.statusCode >= 500 THEN "server_error"
    ELSE "client_error"

Noted(h, e) ==
    [h EXCEPT !.kind = IF @ \in {"none", OutcomeKind(e)} THEN OutcomeKind(e) ELSE "mixed",
              !.last = e]

(***************************************************************************)
(* AuditLogger and the entries the client passes to it.                    *)
(***************************************************************************)
Operations ==
    {"getDevices", "getDeviceHealth", "createTask", "getTaskStatus", "approveTask",
     "cancelTask"}

\* the digest taken over the detail map as well
CalculateHashWithDetails(e) ==
    <<e.timestamp, e.eventType, e.user, e.action, e.resourceType, e.resourceId, e.status,
      e.details>>

\* AuditLogger.calculateHash(entry): SHA-256 of the JSON text of these seven
\* fields, i.e. a function of them and of nothing else
CalculateHash(e) ==
    <<e.timestamp, e.eventType, e.user, e.action, e.resourceType, e.resourceId, e.status>>

\* AuditLogger.log(entry): fullEntry before its hash is set
FullEntry(entry) ==
    [timestamp |-> now, eventType |-> entry.eventType, user |-> "system",
     ipAddress |-> "localhost", action |-> entry.action,
     resourceType |-> entry.resourceType, resourceId |-> entry.resourceId,
     status |-> entry.status, details |-> entry.details, hash |-> <<>>]

\* AuditLogger.log(entry): nothing is written unless the log is enabled; the
\* hash is set before the entry is written
Logged(log, entry) ==
    IF auditConfig.enabled
      THEN Append(log, IF auditConfig.tamperDetection
                         THEN [FullEntry(entry) EXCEPT !.hash = CalculateHash(FullEntry(entry))]
                         ELSE FullEntry(entry))
      ELSE log

\* the lifetime recorded in milliseconds
GrantedLifetimeMs(t) == t.expires_in * 1000

\* authenticate(): details.expiresIn is response.expires_in
GrantedLifetime(t) == t.expires_in

\* authenticate(): the entry logged after a successful exchange
TokenAcquired(t) ==
    [eventType |-> "authentication", action |-> "oauth2_token_acquired",
     resourceType |-> "auth", resourceId |-> "undefined", status |-> "success",
     details |-> [expiresIn |-> GrantedLifetime(t)]]

\* authenticate(): the entry logged in its catch block (details.error is String(error))
TokenFailed(e) ==
    [eventType |-> "authentication", action |-> "oauth2_token_failed",
     resourceType |-> "auth", resourceId |-> "undefined", status |-> "failure",
     details |-> [error |-> e.name]]

\* the action of the entry a public operation logs
ActionOf(o) ==
    CASE o = "getDevices" -> "list_devices"
      [] o = "getDeviceHealth" -> "get_device_health"
      [] o = "createTask" -> "create_task"
      [] o = "getTaskStatus" -> "get_task_status"
      [] o = "approveTask" -> "approve_task"
      [] o = "cancelTask" -> "cancel_task"

\* the entry a public operation logs after makeHttpRequest returned (its
\* detail map, which differs from operation to operation, is left empty)
ApiCall(o) ==
    [eventType |-> IF o = "createTask" THEN "task_created" ELSE "api_call",
     action |-> ActionOf(o),
     resourceType |-> IF o \in {"getDevices", "getDeviceHealth"} THEN "device" ELSE "task",
     resourceId |-> IF o = "getDevices" THEN "undefined"
                    ELSE IF o = "getDeviceHealth" THEN "deviceId" ELSE "taskId",
     status |-> "success", details |-> <<>>]

(***************************************************************************)
(* EsetProtectClient.makeHttpRequest and authenticate, per caller.         *)
(***************************************************************************)

\* the credential check skipped at every level
AfterAcquireDirect(l) == "send"

\* where a caller continues once acquire admits it: the credential check in
\* its own request, the transport call in the exchange (skipAuth)
AfterAcquire(l) == IF l = "req" THEN "auth" ELSE "send"

\* makeHttpRequest throws e, the history being h: a request's error goes to
\* its caller; an exchange's error is caught by authenticate, which throws
\* EsetAuthenticationError into the request that called it, whose catch
\* block rethrows it.
Throw(p, h, e) ==
    /\ pc' = [pc EXCEPT ![p] = "done"]
    /\ lvl' = [lvl EXCEPT ![p] = "req"]
    /\ auditLog' = IF lvl[p] = "req" THEN auditLog
                   ELSE [auditLog EXCEPT ![p] = Logged(@, TokenFailed(e))]
    /\ hist' = IF lvl[p] = "req"
                 THEN [h EXCEPT ![p].req.result = e]
                 ELSE [h EXCEPT ![p].exch.result = e,
                                ![p].req = [Noted(@, EsetAuthenticationError)
                                              EXCEPT !.result = EsetAuthenticationError]]

\* a public operation (getDevices, getDeviceHealth, ...) calls
\* makeHttpRequest, which runs up to the first suspension of acquire
Starts(p, limit) ==
    /\ pc[p] = "idle"
    /\ calls.request[p] < limit
    /\ calls' = [calls EXCEPT !.request[p] = @ + 1]
    /\ auditLog' = [auditLog EXCEPT ![p] = <<>>]
    /\ lvl' = [lvl EXCEPT ![p] = "req"]
    /\ attempt' = [attempt EXCEPT ![p] = [l \in Levels |-> 0]]
    /\ AcquireEnter(p, "auth")
    /\ hist' = [hist EXCEPT ![p] = [l \in Levels |-> NoHist],
                            ![p].req.acquired = IF pc'[p] = "auth" THEN 1 ELSE 0]
    /\ op' = [op EXCEPT ![p] = "none"]
    /\ UNCHANGED <<now, credVars, lastOp, signals, resets, auditConfig>>
    /\ UNCHANGED managerVars

Call(p) == Starts(p, MaxCalls)

\* the timer of a suspended acquire fires
Admit(p) ==
    /\ Quiescent
    /\ AcquireResume(p, AfterAcquire(lvl[p]))
    /\ hist' = [hist EXCEPT ![p][lvl[p]].acquired = @ + 1]
    /\ UNCHANGED <<now, credVars, lvl, attempt, histVars, auditVars>>
    /\ UNCHANGED managerVars

\* authenticate(): the check of the cached token
Authenticate(p) ==
    /\ pc[p] = "auth"
    /\ pc' = [pc EXCEPT ![p] = IF TokenValid THEN "send" ELSE "creds"]
    /\ hist' = [hist EXCEPT ![p].req.checked = @ + 1]
    /\ UNCHANGED <<now, limVars, credVars, lvl, attempt, wakeAt, effCost, histVars,
                   auditVars>>
    /\ UNCHANGED managerVars

\* authenticate(): after getCredentials, the exchange request starts
\* (makeHttpRequest with skipAuth, up to the first suspension of acquire)
Exchange(p) ==
    /\ pc[p] = "creds"
    /\ lvl' = [lvl EXCEPT ![p] = "exch"]
    /\ attempt' = [attempt EXCEPT ![p].exch = 0]
    /\ AcquireEnter(p, "send")
    /\ hist' = [hist EXCEPT ![p].exch =
                                [NoHist EXCEPT !.acquired = IF pc'[p] = "send" THEN 1 ELSE 0],
                            ![p].req.exchanges = @ + 1]
    /\ UNCHANGED <<now, credVars, histVars, auditVars>>
    /\ UNCHANGED managerVars

\* makeHttpRequest(): the headers are built and httpRequest is called
Send(p) ==
    /\ pc[p] = "send"
    /\ pc' = [pc EXCEPT ![p] = "inflight"]
    /\ hist' = [hist EXCEPT ![p][lvl[p]].sent = @ + 1]
    /\ UNCHANGED <<now, limVars, credVars, lvl, attempt, wakeAt, effCost, histVars,
                   auditVars>>
    /\ UNCHANGED managerVars

\* makeHttpRequest(): httpRequest settled with e
Settle(p, e, granted) ==
    LET l == lvl[p]
        a == attempt[p][l]
        h == [hist EXCEPT ![p][l] = Noted(@, e)]
    IN  IF e = Resolved THEN
            \* success: resetAdaptive(), return; an exchange's response becomes the token
            /\ adaptiveMultiplier' = DecayedMultiplier(adaptiveMultiplier)
            /\ hist' = [h EXCEPT ![p][l].result = Resolved]
            /\ IF l = "req"
                 THEN /\ pc' = [pc EXCEPT ![p] = "done"]
                      /\ UNCHANGED <<credVars, lvl, auditLog>>
                 ELSE /\ token' = [id |-> token.id + 1, expires_in |-> granted]
                      /\ tokenExpiresAt' = ExpiresAt(token')
                      /\ auditLog' = [auditLog EXCEPT ![p] = Logged(@, TokenAcquired(token'))]
                      /\ lvl' = [lvl EXCEPT ![p] = "req"]
                      /\ pc' = [pc EXCEPT ![p] = "send"]
            /\ UNCHANGED <<wakeAt>>
        ELSE IF IsRateLimit(e) /\ RetriesRateLimit(a) THEN
            /\ adaptiveMultiplier' = AdjustedMultiplier(adaptiveMultiplier, Penalty(e))
            /\ wakeAt' = [wakeAt EXCEPT ![p] = now + RateLimitDelay(e, a)]
            /\ pc' = [pc EXCEPT ![p] = "sleep"]
            /\ hist' = h
            /\ UNCHANGED <<credVars, lvl, auditLog>>
        ELSE IF IsServerError(e) /\ RetriesServerError(a) THEN
            /\ wakeAt' = [wakeAt EXCEPT ![p] = now + Backoff(a)]
            /\ pc' = [pc EXCEPT ![p] = "sleep"]
            /\ hist' = h
            /\ UNCHANGED <<adaptiveMultiplier, credVars, lvl, auditLog>>
        ELSE
            /\ Throw(p, h, e)
            /\ UNCHANGED <<adaptiveMultiplier, credVars, wakeAt>>

\* the transport settles p's call; with `budgeted`, the remote API fails at
\* most MaxFaults times in a run
Settles(p, budgeted) ==
    /\ Quiescent
    /\ pc[p] = "inflight"
    /\ \E status \in Statuses \cup {NetworkFailure}, header \in RetryAfterHeaders,
          granted \in Lifetimes :
          LET e == HttpRequest(status, header)
              counted == budgeted /\ e # Resolved
          IN  /\ counted => calls.faults < MaxFaults
              /\ Settle(p, e, granted)
              /\ calls' = IF counted THEN [calls EXCEPT !.faults = @ + 1] ELSE calls
    /\ UNCHANGED <<now, maxTokens, tokens, lastRefill, attempt, effCost, lastOp,
                   signals, resets, auditConfig, op>>
    /\ UNCHANGED managerVars

Respond(p) == Settles(p, FALSE)

\* makeHttpRequest(): the backoff timer fired: continue, i.e. attempt++, the
\* loop condition, and the next attempt up to the first suspension of acquire
Retry(p) ==
    /\ Quiescent
    /\ pc[p] = "sleep"
    /\ now >= wakeAt[p]
    /\ attempt' = [attempt EXCEPT ![p][lvl[p]] = @ + 1]
    /\ IF InBudget(attempt'[p][lvl[p]])
         THEN /\ AcquireEnter(p, AfterAcquire(lvl[p]))
              /\ hist' = [hist EXCEPT ![p][lvl[p]].acquired =
                                         IF pc'[p] = "acqWait" THEN @ ELSE @ + 1]
              /\ UNCHANGED <<lvl, auditLog>>
         ELSE /\ Throw(p, hist, MaxRetriesExceeded)
              /\ UNCHANGED <<limVars, wakeAt, effCost>>
    /\ UNCHANGED <<now, credVars, histVars, auditConfig, op>>
    /\ UNCHANGED managerVars

\* makeHttpRequest settled in a public operation, any of the six (which one
\* bears on nothing but its entry): the operation logs its entry when the
\* request returned and lets the error pass when it threw; the caller has
\* its result and may call again
Finishes(p, operations) ==
    /\ pc[p] = "done"
    /\ pc' = [pc EXCEPT ![p] = "idle"]
    /\ \E o \in operations : op' = [op EXCEPT ![p] = o]
    /\ auditLog' = IF hist[p].req.result = Resolved
                     THEN [auditLog EXCEPT ![p] = Logged(@, ApiCall(op'[p]))]
                     ELSE auditLog
    /\ UNCHANGED <<now, limVars, credVars, lvl, attempt, wakeAt, effCost, hist,
                   histVars, auditConfig>>
    /\ UNCHANGED managerVars

Return(p) == Finishes(p, Operations)

\* time passes while a caller is suspended or may still call
Passes(callers, limit) ==
    /\ \E p \in callers : pc[p] # "idle" \/ calls.request[p] < limit
    /\ Advance(Expiry, MaxNow)

Tick == Passes(Sequential, MaxCalls)

\* one caller, calling again and again
Next ==
    \/ \E p \in Sequential : Call(p)
    \/ \E p \in Sequential : Admit(p)
    \/ \E p \in Sequential : Authenticate(p)
    \/ \E p \in Sequential : Exchange(p)
    \/ \E p \in Sequential : Send(p)
    \/ \E p \in Sequential : Respond(p)
    \/ \E p \in Sequential : Retry(p)
    \/ \E p \in Sequential : Return(p)
    \/ Tick

Spec == Init /\ [][Next]_vars

(***************************************************************************)
(* Concurrent callers on one client (as batchHealthCheck and               *)
(* performHealthCheck start them), against a remote API that fails at most *)
(* MaxFaults times.                                                        *)
(***************************************************************************)
HealthOperation == {"getDeviceHealth"}     \* what the concurrent callers call
ConcCall(p) == Starts(p, MaxConcurrentCalls)
ConcRespond(p) == Settles(p, TRUE)
ConcReturn(p) == Finishes(p, HealthOperation)
ConcTick == Passes(Procs, MaxConcurrentCalls)

ConcNext ==
    \/ \E p \in Procs : ConcCall(p)
    \/ \E p \in Procs : Admit(p)
    \/ \E p \in Procs : Authenticate(p)
    \/ \E p \in Procs : Exchange(p)
    \/ \E p \in Procs : Send(p)
    \/ \E p \in Procs : ConcRespond(p)
    \/ \E p \in Procs : Retry(p)
    \/ \E p \in Procs : ConcReturn(p)
    \/ ConcTick

ConcurrentSpec == Init /\ [][ConcNext]_vars

(***************************************************************************)
(* The limiter on its own: acquire, adjustForRateLimit and resetAdaptive   *)
(* called in any order, acquire by concurrent callers.                     *)
(***************************************************************************)
LimAcquire(p) ==
    /\ pc[p] = "idle"
    /\ calls.acquire < MaxAcquires
    /\ AcquireEnter(p, "idle")
    /\ lastOp' = IF pc'[p] = "idle" THEN "acquire" ELSE "suspend"
    /\ calls' = [calls EXCEPT !.acquire = @ + 1]
    /\ UNCHANGED <<now, credVars, lvl, attempt, hist, signals, resets, auditVars>>
    /\ UNCHANGED managerVars

LimResume(p) ==
    /\ AcquireResume(p, "idle")
    /\ lastOp' = "acquire"
    /\ UNCHANGED <<now, credVars, lvl, attempt, hist, signals, resets, calls, auditVars>>
    /\ UNCHANGED managerVars

LimAdjust(retryAfter) ==
    /\ calls.tuning < MaxTunings
    /\ adaptiveMultiplier' = AdjustedMultiplier(adaptiveMultiplier, retryAfter)
    /\ lastOp' = "adjust"
    /\ calls' = [calls EXCEPT !.tuning = @ + 1]
    /\ UNCHANGED <<now, maxTokens, tokens, lastRefill, credVars, procVars,
                   signals, resets, auditVars>>
    /\ UNCHANGED managerVars

LimReset ==
    /\ calls.tuning < MaxTunings
    /\ adaptiveMultiplier' = DecayedMultiplier(adaptiveMultiplier)
    /\ lastOp' = "reset"
    /\ calls' = [calls EXCEPT !.tuning = @ + 1]
    /\ UNCHANGED <<now, maxTokens, tokens, lastRefill, credVars, procVars,
                   signals, resets, auditVars>>
    /\ UNCHANGED managerVars

LimTick == Advance(NextSecond, LimHorizon)

LimNext ==
    \/ \E p \in Procs : LimAcquire(p)
    \/ \E p \in Procs : LimResume(p)
    \/ \E r \in RetryAfterValues : LimAdjust(r)
    \/ LimReset
    \/ LimTick

LimiterSpec == Init /\ [][LimNext]_vars

(***************************************************************************)
(* The limiter used by a single caller: acquire calls one after the other, *)
(* adjustForRateLimit and resetAdaptive between them.                      *)
(***************************************************************************)
SoloAdjust(retryAfter) == pc["a"] = "idle" /\ LimAdjust(retryAfter)
SoloReset == pc["a"] = "idle" /\ LimReset

SoloNext ==
    \/ LimAcquire("a")
    \/ LimResume("a")
    \/ \E r \in RetryAfterValues : SoloAdjust(r)
    \/ SoloReset
    \/ LimTick

SoloSpec == Init /\ [][SoloNext]_vars

(***************************************************************************)
(* The adaptive multiplier on its own: every sequence of rate-limit        *)
(* signals and success notifications.                                      *)
(***************************************************************************)
MulAdjust(retryAfter) ==
    /\ signals < MaxSignals
    /\ adaptiveMultiplier' = AdjustedMultiplier(adaptiveMultiplier, retryAfter)
    /\ lastOp' = "adjust"
    /\ signals' = IF signals >= 0 THEN signals + 1 ELSE signals
    /\ resets' = 0
    /\ UNCHANGED <<now, maxTokens, tokens, lastRefill, credVars, procVars, calls,
                   auditVars>>
    /\ UNCHANGED managerVars

MulReset ==
    /\ resets < MaxResets
    /\ adaptiveMultiplier' = DecayedMultiplier(adaptiveMultiplier)
    /\ lastOp' = "reset"
    /\ signals' = IF adaptiveMultiplier' = Scale THEN 0 ELSE -1
    /\ resets' = resets + 1
    /\ UNCHANGED <<now, maxTokens, tokens, lastRefill, credVars, procVars, calls,
                   auditVars>>
    /\ UNCHANGED managerVars

MulNext ==
    \/ \E r \in RetryAfterValues : MulAdjust(r)
    \/ MulReset

MultiplierSpec == Init /\ [][MulNext]_vars

(***************************************************************************)
(* EsetManager.batchHealthCheck.  A per-device operation is the promise of *)
(* the async callback of batch.map: it is started when the callback is     *)
(* called, runs client.getDeviceHealth, pushes one entry to results when   *)
(* that settles (resolved, or rejected with an error message) and then     *)
(* fulfils.                                                                *)
(***************************************************************************)
BatchSizeValues == {1, 2, 3}           \* options.batchSize values explored
ConcurrencyValues == {1, 2}            \* options.maxConcurrency values explored
ErrorMessages == {"Max retries exceeded", "HTTP 404"}   \* error.message of a rejected getDeviceHealth

\* the input lists explored: n distinct device IDs
DeviceIdList(n) == [k \in 1..n |-> k]

Pending == [promise |-> "pending", health |-> "none"]

\* a slice that runs one position into the next batch
BatchPositionsOverlapping(ids, opts, i) == (i + 1)..Min(i + opts.batchSize + 1, Len(ids))

\* the 1-based positions of deviceIds.slice(i, i + batchSize)
BatchPositions(ids, opts, i) == (i + 1)..Min(i + opts.batchSize, Len(ids))

\* the 1-based positions (in deviceIds) of batchPromises.slice(j, j + maxConcurrency)
\* for the batch that starts at i
ChunkPositions(ids, opts, i, j) ==
    (i + j + 1)..Min(i + j + opts.maxConcurrency, Min(i + opts.batchSize, Len(ids)))

\* results.filter((r) => r.status === st).length
CountStatus(rs, st) == Cardinality({k \in 1..Len(rs) : rs[k].status = st})

\* the status of the batchResult without the all-failed case
BatchStatusTwoWay(ids, failed) ==
    IF failed = 0 THEN "completed" ELSE "partial_failure"

\* the status of the batchResult
BatchStatus(ids, failed) ==
    IF failed = 0 THEN "completed"
    ELSE IF failed < Len(ids) THEN "partial_failure"
    ELSE "failed"

\* the batchResult built after the loop
BatchResultOf(ids, rs) ==
    LET succeeded == CountStatus(rs, "success")
        failed == CountStatus(rs, "failed")
    IN  [status |-> BatchStatus(ids, failed),
         progress |-> [total |-> Len(ids), processed |-> Len(rs),
                       succeeded |-> succeeded, failed |-> failed],
         results |-> rs]

\* the entry pushed for a device whose getDeviceHealth rejected, without the message
FailedEntryBare(id, message) == [deviceId |-> id, status |-> "failed", error |-> ""]

\* the entry pushed for a device whose getDeviceHealth rejected
FailedEntry(id, message) == [deviceId |-> id, status |-> "failed", error |-> message]

\* the entry pushed for a device whose getDeviceHealth resolved
SuccessEntry(id) == [deviceId |-> id, status |-> "success", error |-> ""]

\* the entry put in front of the results
PushedFirst(rs, entry) == <<entry>> \o rs

\* results.push(entry)
Pushed(rs, entry) == Append(rs, entry)

\* every pass of the outer loop spins
SpinsAlways(opts) == TRUE

\* a pass of the outer loop never suspends and never ends: with batchSize 0
\* the slice is empty, nothing is awaited and i += 0 repeats the pass; with
\* maxConcurrency 0 the loop that cuts the chunks runs on with j += 0
Spins(opts) == opts.batchSize = 0 \/ opts.maxConcurrency = 0

\* the outer loop at its condition with i: the next batch is mapped (every
\* callback of batch.map is called, which starts its operation) and the
\* first chunk is awaited, unless the pass spins; or the loop ends and the
\* result is returned
Proceed(ids, opts, i) ==
    IF i < Len(ids)
      THEN /\ batchStart' = i
           /\ chunkStart' = 0
           /\ opState' = [k \in 1..Len(ids) |->
                             IF k \in BatchPositions(ids, opts, i)
                               THEN [promise |-> "running", health |-> "none"]
                               ELSE IF k \in DOMAIN opState THEN opState[k] ELSE Pending]
           /\ bpc' = IF Spins(opts) THEN "spinning" ELSE "await"
           /\ UNCHANGED batchResult
      ELSE /\ batchResult' = BatchResultOf(ids, results)
           /\ bpc' = "returned"
           /\ UNCHANGED <<batchStart, chunkStart, opState>>

\* batchHealthCheck(deviceIds, options) is called
Called(sizes, concurrencies) ==
    /\ bpc = "idle"
    /\ \E n \in 0..MaxDevices, bs \in sizes, mc \in concurrencies :
          /\ deviceIds' = DeviceIdList(n)
          /\ options' = [batchSize |-> bs, maxConcurrency |-> mc]
          /\ Proceed(deviceIds', options', 0)
    /\ UNCHANGED <<results, clientVars, evalVars, ruleVars, taskVars>>

BatchHealthCheck == Called(BatchSizeValues, ConcurrencyValues)

\* the chunks not awaited
ChunkSettledUnawaited == bpc = "await"

\* the chunk being awaited has settled: Promise.all(chunk) resolves
ChunkSettled ==
    /\ bpc = "await"
    /\ \A k \in ChunkPositions(deviceIds, options, batchStart, chunkStart) :
          opState[k].promise = "fulfilled"

\* getDeviceHealth of the operation at position k settles, and the
\* callback pushes its entry
DeviceSettles(k) ==
    /\ bpc = "await"
    /\ ~ChunkSettled
    /\ k \in DOMAIN opState
    /\ opState[k].promise = "running"
    /\ \E outcome \in {"ok"} \cup ErrorMessages :
          /\ opState' = [opState EXCEPT ![k] = [promise |-> "fulfilled", health |-> outcome]]
          /\ results' = Pushed(results,
                               IF outcome = "ok" THEN SuccessEntry(deviceIds[k])
                               ELSE FailedEntry(deviceIds[k], outcome))
    /\ UNCHANGED <<deviceIds, options, batchStart, chunkStart, batchResult, bpc,
                   clientVars, evalVars, ruleVars, taskVars>>

\* await Promise.all(chunk) returns: the next chunk is awaited, or the
\* outer loop goes on with the next batch
ChunkDone ==
    /\ ChunkSettled
    /\ IF chunkStart + options.maxConcurrency <
             Cardinality(BatchPositions(deviceIds, options, batchStart))
         THEN /\ chunkStart' = chunkStart + options.maxConcurrency
              /\ UNCHANGED <<batchStart, opState, batchResult, bpc>>
         ELSE Proceed(deviceIds, options, batchStart + options.batchSize)
    /\ UNCHANGED <<deviceIds, options, results, clientVars, evalVars, ruleVars, taskVars>>

BatchNext ==
    \/ BatchHealthCheck
    \/ \E k \in 1..MaxDevices : DeviceSettles(k)
    \/ ChunkDone

\* the manager's operations do not read the client's configuration: one is taken
ManagerInit == Init /\ maxTokens = Scale

BatchSpec == ManagerInit /\ [][BatchNext]_vars

\* the same with options that may be zero, every per-device operation
\* settling eventually
AnyBatchSizes == BatchSizeValues \cup {0}
AnyConcurrencies == ConcurrencyValues \cup {0}
BatchHealthCheckAny == Called(AnyBatchSizes, AnyConcurrencies)

AnyBatchNext ==
    \/ BatchHealthCheckAny
    \/ \E k \in 1..MaxDevices : DeviceSettles(k)
    \/ ChunkDone

FairBatchSpec == ManagerInit /\ [][AnyBatchNext]_vars /\ WF_vars(AnyBatchNext)

(***************************************************************************)
(* EsetManager.performHealthCheck.  Ages are in hours: the age of a        *)
(* timestamp t is now.getTime() - new Date(t).getTime().                   *)
(***************************************************************************)
Fleet == <<"d1", "d2">>                \* uuids of the devices getDevices may list
ThresholdValues ==                     \* options.thresholds values explored
    {[offlineDeviceHours |-> 24, outdatedDefinitionDays |-> 7, threatCountCritical |-> 2,
      moduleErrorThreshold |-> 2]}
LastSeenAges == {24, 30}               \* hours since device.lastSeen
NoDate == -1                           \* antivirusStatus.lastUpdate is absent
LastUpdateAges == {NoDate, 7 * 24, 10 * 24, 14 * 24, 20 * 24}   \* hours since lastUpdate
ThreatCounts == {0, 1, 2}              \* health.threats.count
ModuleLists ==                         \* health.modules, by status
    {<<>>, <<"ok", "error">>, <<"error", "warning", "error">>}
Tiers == {"healthy", "warning", "critical"}   \* health.overallHealth

\* the DeviceHealth records getDeviceHealth(uuid) may resolve with
HealthRecords(uuid) ==
    [uuid : {uuid}, overallHealth : Tiers, lastUpdate : LastUpdateAges,
     threats : ThreatCounts, enabled : BOOLEAN, modules : ModuleLists]

\* a health promise not settled yet, and one settled with null (by .catch)
Unsettled == [state |-> "pending", health |-> <<>>]
Null == [state |-> "null", health |-> <<>>]
Fetched(h) == [state |-> "ok", health |-> h]

\* deviceHealthResults with the nulls kept, a null read as a record with no finding
DeviceDetailsUnfiltered(fs) ==
    [k \in 1..Len(fs) |->
        IF fs[k].state = "ok" THEN fs[k].health
        ELSE [uuid |-> devices[k].uuid, overallHealth |-> "healthy", lastUpdate |-> NoDate,
              threats |-> 0, enabled |-> TRUE, modules |-> <<>>]]

\* deviceHealthResults.filter((h) => h !== null)
RECURSIVE DeviceDetails(_)
DeviceDetails(fs) ==
    IF fs = <<>> THEN <<>>
    ELSE (IF Head(fs).state = "ok" THEN <<Head(fs).health>> ELSE <<>>)
            \o DeviceDetails(Tail(fs))

\* devices.find((d) => d.uuid === uuid): the index of the first match, 0 if none
FindDevice(ds, uuid) ==
    IF \E k \in 1..Len(ds) : ds[k].uuid = uuid
      THEN CHOOSE k \in 1..Len(ds) :
              /\ ds[k].uuid = uuid
              /\ \A j \in 1..(k - 1) : ds[j].uuid # uuid
      ELSE 0

Issue(device, type, severity) ==
    [deviceId |-> device.uuid, issueType |-> type, severity |-> severity]

\* the offline rule
OfflineIssue(th, device, health) ==
    IF device.lastSeen > th.offlineDeviceHours
      THEN <<Issue(device, "offline", "critical")>> ELSE <<>>

\* the severity of an outdated issue with the doubled threshold included
OutdatedSeverityInclusive(th, age) ==
    IF age >= th.outdatedDefinitionDays * 2 * 24 THEN "critical" ELSE "warning"

\* the severity of an outdated issue
OutdatedSeverity(th, age) ==
    IF age > th.outdatedDefinitionDays * 2 * 24 THEN "critical" ELSE "warning"

\* the outdated-definitions rule
OutdatedIssue(th, device, health) ==
    IF health.lastUpdate # NoDate /\ health.lastUpdate > th.outdatedDefinitionDays * 24
      THEN <<Issue(device, "outdated", OutdatedSeverity(th, health.lastUpdate))>> ELSE <<>>

\* the threat rule
ThreatIssue(th, device, health) ==
    IF health.threats >= th.threatCountCritical
      THEN <<Issue(device, "threat_detected", "critical")>> ELSE <<>>

\* the protection rule
ProtectionIssue(th, device, health) ==
    IF ~health.enabled THEN <<Issue(device, "protection_disabled", "critical")>> ELSE <<>>

\* health.modules.filter((m) => m.status === 'error').length
ErrorModules(health) ==
    Cardinality({k \in 1..Len(health.modules) : health.modules[k] = "error"})

\* the module rule
ModuleIssue(th, device, health) ==
    IF ErrorModules(health) >= th.moduleErrorThreshold
      THEN <<Issue(device, "module_error", "warning")>> ELSE <<>>

\* the rules as an if / else-if chain: the first violated rule only
DeviceIssuesFirstOnly(th, device, health) ==
    LET all == OfflineIssue(th, device, health) \o OutdatedIssue(th, device, health)
                 \o ThreatIssue(th, device, health) \o ProtectionIssue(th, device, health)
                 \o ModuleIssue(th, device, health)
    IN  SubSeq(all, 1, Min(1, Len(all)))

\* the issues pushed by one iteration of the analysis loop for a device
DeviceIssues(th, device, health) ==
    OfflineIssue(th, device, health) \o OutdatedIssue(th, device, health)
        \o ThreatIssue(th, device, health) \o ProtectionIssue(th, device, health)
        \o ModuleIssue(th, device, health)

\* the issues pushed by the analysis loop over deviceDetails
RECURSIVE Issues(_, _, _)
Issues(th, ds, details) ==
    IF details = <<>> THEN <<>>
    ELSE LET health == Head(details)
             k == FindDevice(ds, health.uuid)
         IN  (IF k = 0 THEN <<>> ELSE DeviceIssues(th, ds[k], health))
                \o Issues(th, ds, Tail(details))

\* the tier a device is tallied under, taken from its worst issue
TallyTierByIssues(th, ds, health) ==
    LET k == FindDevice(ds, health.uuid)
        is == IF k = 0 THEN <<>> ELSE DeviceIssues(th, ds[k], health)
    IN  IF \E j \in 1..Len(is) : is[j].severity = "critical" THEN "critical"
        ELSE IF is # <<>> THEN "warning"
        ELSE "healthy"

\* the tier a device is tallied under
TallyTier(th, ds, health) == health.overallHealth

\* the number of iterations of the analysis loop that counted the tier
Tally(th, ds, details, tier) ==
    Cardinality({k \in 1..Len(details) : TallyTier(th, ds, details[k]) = tier})

\* summary after the analysis loop
Summary(th, ds, details) ==
    [totalDevices |-> Len(ds),
     healthyDevices |-> Tally(th, ds, details, "healthy"),
     warningDevices |-> Tally(th, ds, details, "warning"),
     criticalDevices |-> Tally(th, ds, details, "critical"),
     offlineDevices |->
        Cardinality({k \in 1..Len(details) :
            LET j == FindDevice(ds, details[k].uuid)
            IN  j # 0 /\ OfflineIssue(th, ds[j], details[k]) # <<>>})]

\* performHealthCheck(options) is called: getDevices is awaited
PerformHealthCheck ==
    /\ hpc = "idle"
    /\ \E th \in ThresholdValues : thresholds' = th
    /\ hpc' = "listing"
    /\ UNCHANGED <<devices, fetched, healthResult, clientVars, orchVars, ruleVars, taskVars>>

\* getDevices resolved with n devices: getDeviceHealth is called for each
\* and Promise.all is awaited
DevicesListed ==
    /\ hpc = "listing"
    /\ \E n \in 0..Len(Fleet) :
       \E seen \in [1..n -> LastSeenAges] :
          /\ devices' = [k \in 1..n |-> [uuid |-> Fleet[k], lastSeen |-> seen[k]]]
          /\ fetched' = [k \in 1..n |-> Unsettled]
    /\ hpc' = "fetching"
    /\ UNCHANGED <<thresholds, healthResult, clientVars, orchVars, ruleVars, taskVars>>

\* getDevices rejected: performHealthCheck rejects with the same error
DevicesFailed ==
    /\ hpc = "listing"
    /\ hpc' = "thrown"
    /\ UNCHANGED <<thresholds, devices, fetched, healthResult, clientVars, orchVars, ruleVars, taskVars>>

\* getDeviceHealth of the k-th device resolved with a record
HealthFetched(k) ==
    /\ hpc = "fetching"
    /\ k \in DOMAIN fetched
    /\ fetched[k] = Unsettled
    /\ \E h \in HealthRecords(devices[k].uuid) :
          fetched' = [fetched EXCEPT ![k] = Fetched(h)]
    /\ UNCHANGED <<thresholds, devices, healthResult, hpc, clientVars, orchVars, ruleVars, taskVars>>

\* getDeviceHealth of the k-th device rejected: .catch turns it into null
HealthFailed(k) ==
    /\ hpc = "fetching"
    /\ k \in DOMAIN fetched
    /\ fetched[k] = Unsettled
    /\ fetched' = [fetched EXCEPT ![k] = Null]
    /\ UNCHANGED <<thresholds, devices, healthResult, hpc, clientVars, orchVars, ruleVars, taskVars>>

\* Promise.all resolved: the analysis runs and the result is returned
Analyze ==
    /\ hpc = "fetching"
    /\ \A k \in DOMAIN fetched : fetched[k] # Unsettled
    /\ LET details == DeviceDetails(fetched)
       IN  healthResult' = [returned |-> TRUE,
                            summary |-> Summary(thresholds, devices, details),
                            deviceDetails |-> details,
                            issues |-> Issues(thresholds, devices, details)]
    /\ hpc' = "returned"
    /\ UNCHANGED <<thresholds, devices, fetched, clientVars, orchVars, ruleVars, taskVars>>

HealthNext ==
    \/ PerformHealthCheck
    \/ DevicesListed
    \/ DevicesFailed
    \/ \E k \in 1..Len(Fleet) : HealthFetched(k)
    \/ \E k \in 1..Len(Fleet) : HealthFailed(k)
    \/ Analyze

HealthSpec == ManagerInit /\ [][HealthNext]_vars

(***************************************************************************)
(* The health rules applied to one snapshot at several times.  The         *)
(* analysis loop reads the clock (const now = new Date()) and turns the    *)
(* timestamps of the snapshot and of the health record into ages.          *)
(***************************************************************************)
HourMs == 3600000                      \* 1000 * 60 * 60
SnapshotTime == 21 * 24 * HourMs       \* Date.now() when the snapshot is fetched
EvaluationGap == 6 * HourMs            \* time that passes between two evaluations

\* (now - new Date(t).getTime()) / (1000 * 60 * 60), for t a whole hour
HoursSince(t, n) == (n - t) \div HourMs

\* the device and the health record with their timestamps read at clock value n
DeviceAt(d, n) == [d EXCEPT !.lastSeen = HoursSince(@, n)]
HealthAt(h, n) ==
    [h EXCEPT !.lastUpdate = IF @ = NoDate THEN NoDate ELSE HoursSince(@, n)]

\* one iteration of the analysis loop at clock value n
DeviceIssuesAt(snap, n) ==
    DeviceIssues(snap.thresholds, DeviceAt(snap.device, n), HealthAt(snap.health, n))

\* a device and its health record are fetched
TakeSnapshot ==
    /\ snapshot = NoSnapshot
    /\ now' = SnapshotTime
    /\ \E th \in ThresholdValues, seen \in LastSeenAges, h \in HealthRecords(Fleet[1]) :
          snapshot' =
              [taken |-> TRUE,
               device |-> [uuid |-> Fleet[1], lastSeen |-> now' - seen * HourMs],
               health |-> [h EXCEPT !.lastUpdate =
                              IF @ = NoDate THEN NoDate ELSE now' - @ * HourMs],
               thresholds |-> th]
    /\ UNCHANGED <<maxTokens, tokens, lastRefill, adaptiveMultiplier, credVars, procVars,
                   histVars, auditVars, evaluations, orchVars, evalVars, taskVars>>

\* the analysis loop runs on the snapshot
Evaluate ==
    /\ snapshot.taken
    /\ Len(evaluations) < MaxEvaluations
    /\ evaluations' = Append(evaluations, [at |-> now, issues |-> DeviceIssuesAt(snapshot, now)])
    /\ UNCHANGED <<clientVars, snapshot, orchVars, evalVars, taskVars>>

\* time passes between evaluations
EvaluationTick ==
    /\ snapshot.taken
    /\ Len(evaluations) < MaxEvaluations
    /\ now < SnapshotTime + EvaluationGap
    /\ now' = now + EvaluationGap
    /\ UNCHANGED <<maxTokens, tokens, lastRefill, adaptiveMultiplier, credVars, procVars,
                   histVars, auditVars, managerVars>>

RuleNext ==
    \/ TakeSnapshot
    \/ Evaluate
    \/ EvaluationTick

RuleSpec == ManagerInit /\ [][RuleNext]_vars

(***************************************************************************)
(* EsetManager task operations: waitForTaskCompletion, monitorTask and     *)
(* uninstallAndReinstall.  The remote task is polled; its status and, once *)
(* it is terminal, its per-device result rows are the remote API's.        *)
(***************************************************************************)
NonTerminal == {"created", "pending_approval", "approved", "running"}
Terminal == {"completed", "failed", "cancelled"}
TickMs == 10000                        \* granularity of the clock while a loop runs (ms)
MonitorIntervalMs == 5000              \* monitorTask: setTimeout(resolve, 5000)
WaitOptions ==                         \* options of direct waitForTaskCompletion calls
    {[timeoutMinutes |-> 0, pollingIntervalSeconds |-> 10],
     [timeoutMinutes |-> 1, pollingIntervalSeconds |-> 10],
     [timeoutMinutes |-> 1, pollingIntervalSeconds |-> 30]}
UninstallWait == [timeoutMinutes |-> 30, pollingIntervalSeconds |-> 10]

\* waitForTaskCompletion tests Date.now() - startTime < timeoutMs; monitorTask is while (true)
IsTimed(l) == l.kind = "wait"

\* the terminal test that knows completed only
IsTerminalCompletedOnly(st) == st = "completed"

\* status === 'completed' || status === 'failed' || status === 'cancelled'
IsTerminal(st) == st \in Terminal

\* the filter that keeps every device
RemainingAll(ids, failed) == ids

\* deviceIds.filter((id) => !failedDevices.some((f) => f.deviceId === id))
Remaining(ids, failed) == SelectSeq(ids, LAMBDA id : id \notin failed)

\* the test that never finds the list empty
NoneLeftNever(ids) == FALSE

\* deviceIds.length === 0
NoneLeft(ids) == Len(ids) = 0

TaskReturned(value, uninstallTask, reinstallTask) ==
    [kind |-> "returned", value |-> value, uninstallTask |-> uninstallTask,
     reinstallTask |-> reinstallTask]
TaskThrown(error) ==
    [kind |-> "thrown", value |-> error, uninstallTask |-> "none", reinstallTask |-> "none"]

\* the test that lets every result of the wait pass
DidCompleteAlways(completed) == TRUE

\* if (!uninstallCompleted) throw ...
DidComplete(completed) == completed = "true"

\* uninstallAndReinstall goes on after waitForTaskCompletion returned completed
AfterWait(completed) ==
    IF DidComplete(completed)
      THEN /\ wpc' = "checking"
           /\ invoked' = invoked \cup {"getTaskStatus"}
           /\ UNCHANGED taskOutcome
      ELSE /\ wpc' = "thrown"
           /\ taskOutcome' = TaskThrown("EsetTaskError")
           /\ UNCHANGED invoked

\* the polling loop ends with a value: it is the result of a direct call, or
\* the caller goes on
LoopReturns(value) ==
    /\ ppc' = "done"
    /\ IF wpc \in {"creating", "waiting"}
         THEN AfterWait(value)
         ELSE /\ taskOutcome' = TaskReturned(value, "none", "none")
              /\ UNCHANGED <<wpc, invoked>>

\* the polling loop at its condition: getTaskStatus is called, or the
\* timeout has passed and waitForTaskCompletion returns false
LoopHead(l, e) ==
    IF IsTimed(l) /\ ~(e < l.timeoutMs)
      THEN LoopReturns("false")
      ELSE /\ ppc' = "polling"
           /\ invoked' = invoked \cup {"getTaskStatus"}
           /\ wpc' = IF wpc = "creating" THEN "waiting" ELSE wpc
           /\ UNCHANGED taskOutcome

StartLoop(kind, opts) ==
    /\ loop' = [kind |-> kind, timeoutMs |-> opts.timeoutMinutes * 60 * 1000,
                intervalMs |-> opts.pollingIntervalSeconds * 1000, timer |-> 0]
    /\ elapsed' = 0
    /\ LoopHead(loop', 0)

\* waitForTaskCompletion(taskId, options) is called directly
WaitForTaskCompletion ==
    /\ wpc = "idle" /\ ppc = "idle"
    /\ \E opts \in WaitOptions : StartLoop("wait", opts)
    /\ UNCHANGED <<observed, rows, targets, created, clientVars, orchVars, evalVars, ruleVars>>

\* monitorTask(taskId) is called
MonitorTask ==
    /\ wpc = "idle" /\ ppc = "idle"
    /\ loop' = [kind |-> "monitor", timeoutMs |-> 0, intervalMs |-> MonitorIntervalMs,
                timer |-> 0]
    /\ LoopHead(loop', 0)
    /\ UNCHANGED <<elapsed, observed, rows, targets, created, clientVars, orchVars, evalVars,
                   ruleVars>>

\* getTaskStatus of the loop resolved with status st (and, the task being
\* terminal, its rows): the loop returns or sleeps
StatusAnswered ==
    /\ ppc = "polling"
    /\ \E st \in NonTerminal \cup Terminal, failed \in SUBSET (1..MaxTargets) :
          /\ observed' = st
          /\ IF IsTerminal(st)
               THEN /\ rows' = [known |-> TRUE, failed |-> failed]
                    /\ LoopReturns(IF loop.kind = "monitor" THEN st
                                   ELSE IF st = "completed" THEN "true" ELSE "false")
                    /\ UNCHANGED loop
               ELSE /\ failed = {}
                    /\ ppc' = "sleeping"
                    /\ loop' = [loop EXCEPT !.timer = loop.intervalMs]
                    /\ UNCHANGED <<rows, wpc, invoked, taskOutcome>>
    /\ UNCHANGED <<elapsed, targets, created, clientVars, orchVars, evalVars, ruleVars>>

\* a client operation the manager awaits rejected: the manager operation
\* rejects with the same error
Rejected ==
    /\ \/ ppc = "polling"
       \/ wpc \in {"creating", "checking", "reinstalling"}
    /\ ppc' = IF ppc = "polling" THEN "done" ELSE ppc
    /\ wpc' = IF wpc = "idle" THEN wpc ELSE "thrown"
    /\ taskOutcome' = TaskThrown("EsetApiError")
    /\ UNCHANGED <<loop, elapsed, observed, rows, targets, created, invoked, clientVars,
                   orchVars, evalVars, ruleVars>>

\* time passes while the loop waits for an answer or sleeps
PollTick ==
    /\ ppc \in {"polling", "sleeping"}
    /\ elapsed' = IF IsTimed(loop) THEN Min(elapsed + TickMs, loop.timeoutMs) ELSE elapsed
    /\ loop' = [loop EXCEPT !.timer = Max(@ - TickMs, 0)]
    /\ elapsed' # elapsed \/ loop' # loop
    /\ UNCHANGED <<wpc, ppc, observed, rows, targets, created, invoked, taskOutcome,
                   clientVars, orchVars, evalVars, ruleVars>>

\* the sleep of the loop is over
TimerFired ==
    /\ ppc = "sleeping"
    /\ loop.timer = 0
    /\ LoopHead(loop, elapsed)
    /\ UNCHANGED <<loop, elapsed, observed, rows, targets, created, clientVars, orchVars,
                   evalVars, ruleVars>>

\* uninstallAndReinstall(deviceIds, packageUrl) is called: uninstallEset
\* calls createTask
UninstallAndReinstall ==
    /\ wpc = "idle" /\ ppc = "idle"
    /\ \E n \in 0..MaxTargets :
          /\ targets' = DeviceIdList(n)
          /\ created' = <<[taskType |-> "software_uninstall", ids |-> targets']>>
    /\ invoked' = invoked \cup {"createTask"}
    /\ wpc' = "creating"
    /\ UNCHANGED <<ppc, loop, elapsed, observed, rows, taskOutcome, clientVars, orchVars,
                   evalVars, ruleVars>>

\* createTask resolved with the uninstall task: waitForTaskCompletion is called
UninstallCreated ==
    /\ wpc = "creating"
    /\ StartLoop("wait", UninstallWait)
    /\ UNCHANGED <<observed, rows, targets, created, taskOutcome, clientVars, orchVars,
                   evalVars, ruleVars>>

\* getTaskStatus after the wait resolved: the failed devices are filtered
\* out and reinstallEset calls createTask, or nothing is left
StatusFetched ==
    /\ wpc = "checking"
    /\ LET failed == rows.failed
           left == IF failed # {} THEN Remaining(targets, failed) ELSE targets
       IN  /\ targets' = left
           /\ IF NoneLeft(left)
                THEN /\ wpc' = "returned"
                     /\ taskOutcome' = TaskReturned("none", "uninstall", "null")
                     /\ UNCHANGED <<created, invoked>>
                ELSE /\ wpc' = "reinstalling"
                     /\ created' = Append(created, [taskType |-> "software_install", ids |-> left])
                     /\ invoked' = invoked \cup {"createTask"}
                     /\ UNCHANGED taskOutcome
    /\ UNCHANGED <<ppc, loop, elapsed, observed, rows, clientVars, orchVars, evalVars,
                   ruleVars>>

\* createTask resolved with the reinstall task
ReinstallCreated ==
    /\ wpc = "reinstalling"
    /\ wpc' = "returned"
    /\ taskOutcome' = TaskReturned("none", "uninstall", "reinstall")
    /\ UNCHANGED <<ppc, loop, elapsed, observed, rows, targets, created, invoked,
                   clientVars, orchVars, evalVars, ruleVars>>

TaskNext ==
    \/ WaitForTaskCompletion
    \/ MonitorTask
    \/ UninstallAndReinstall
    \/ UninstallCreated
    \/ StatusAnswered
    \/ Rejected
    \/ PollTick
    \/ TimerFired
    \/ StatusFetched
    \/ ReinstallCreated

TaskSpec == ManagerInit /\ [][TaskNext]_vars

\* every awaited answer arrives and every timer fires
FairTaskSpec == TaskSpec /\ WF_vars(TaskNext)

(***************************************************************************)
(* Properties of the retry loop.                                           *)
(***************************************************************************)
Finished(p, l) == hist[p][l].result # NoResult
Awaiting(p, l) == lvl[p] = l /\ pc[p] = "inflight"

\* C1: a request whose every attempt is answered with a 5xx is sent exactly
\* maxRetries + 1 times and then fails with that 5xx error itself: after the
\* last answer it has failed (no further sleep), and it never fails earlier
\* or with another error.
C1_ServerErrorBudget ==
    \A p \in Procs, l \in Levels :
        hist[p][l].kind = "server_error" =>
            /\ hist[p][l].sent <= MaxRetries + 1
            /\ (hist[p][l].sent = MaxRetries + 1 /\ ~Awaiting(p, l)) => Finished(p, l)
            /\ Finished(p, l) =>
                  /\ hist[p][l].sent = MaxRetries + 1
                  /\ hist[p][l].result = hist[p][l].last
                  /\ hist[p][l].result.statusCode >= 500

C1_Witness ==
    \E p \in Procs : Finished(p, "req") /\ hist[p].req.kind = "server_error"

\* a request whose attempts were all rate-limited and that has ended
C2_AllRateLimited ==
    \A p \in Procs, l \in Levels :
        (hist[p][l].kind = "rate_limit" /\ Finished(p, l)) =>
            /\ hist[p][l].sent = MaxRetries + 1
            /\ hist[p][l].result = MaxRetriesExceeded

\* the step in which a 429 answer is handled
C2_SignalStep ==
    \A p \in Procs, l \in Levels :
        (Awaiting(p, l) /\ ~Awaiting(p, l)' /\ hist'[p][l].last.statusCode = 429) =>
            /\ adaptiveMultiplier' =
                  IF 3 * adaptiveMultiplier >= 4 * Scale THEN 2 * Scale
                  ELSE (3 * adaptiveMultiplier + 1) \div 2
            /\ pc'[p] = "sleep"
            /\ wakeAt'[p] = now + hist'[p][l].last.retryAfter * 1000
            /\ hist'[p][l].last.retryAfter > 0

\* C2: a request whose every attempt is answered with 429 ends, after
\* maxRetries + 1 transport calls, with the generic 'Max retries exceeded'
\* error; and every 429 answer raises the limiter's multiplier (x1.5, capped
\* at 2.0) and puts the caller to sleep for the retry-after hint.
C2_RateLimitRetry == [][C2_AllRateLimited' /\ C2_SignalStep]_vars

C2_Witness ==
    \E p \in Procs : Finished(p, "req") /\ hist[p].req.kind = "rate_limit"

\* C3: an attempt answered with a 4xx other than 429, or with a network
\* failure, ends the request at once with that same error: no retry, no
\* sleep; a request answered so on its first attempt is sent exactly once.
C3_NoRetryOnClientError ==
    \A p \in Procs, l \in Levels :
        LET h == hist[p][l]
            fatal == \/ h.last.errorCode = "NETWORK_ERROR"
                     \/ (h.last.statusCode >= 400 /\ h.last.statusCode < 500
                           /\ h.last.statusCode # 429)
        IN  /\ (fatal /\ ~Awaiting(p, l)) =>
                  /\ Finished(p, l)
                  /\ h.result = h.last
                  /\ pc[p] \in {"done", "idle"}
            /\ (fatal /\ h.kind \in {"client_error", "network"}) => h.sent = 1

C3_Witness ==
    \E p \in Procs :
        /\ Finished(p, "req")
        /\ hist[p].req.kind = "client_error"
        /\ hist[p].req.result.statusCode = 404
        /\ pc[p] = "done"

(***************************************************************************)
(* Properties of the rate limiter.                                         *)
(***************************************************************************)

\* C4: after an acquire has completed the token count is not negative.
C4_NonNegativeAfterAcquire == lastOp = "acquire" => tokens >= 0

\* C5: the token count never exceeds the bucket capacity.
C5_TokensWithinCapacity == tokens <= maxTokens

\* a refill that the cap cut short: the bucket was full and time had passed
C5_Witness == lastOp = "suspend" /\ lastRefill > 0 /\ tokens = maxTokens

\* C6: after N consecutive rate-limit signals that started at a multiplier
\* of 1.0 the multiplier is min(2.0, 1.5^N), whatever the retry-after values.
C6_SignalsRaiseMultiplier ==
    signals >= 0 =>
        adaptiveMultiplier = Min(2 * Scale, (Scale * 3^signals) \div 2^signals)

C6_Witness == signals = 2 /\ adaptiveMultiplier = 2 * Scale /\ lastOp = "adjust"

\* a success notification sets the multiplier to max(1.0, previous * 0.9)
\* (to the nearest unit): it never rises, never goes below 1.0, stays at 1.0
\* once there, drops to 1.0 only from a value whose 0.9-fold is at most 1.0,
\* and is exactly 1.0 after seven successes in a row.
C7_Decay ==
    lastOp' = "reset" =>
        /\ adaptiveMultiplier' >= Scale
        /\ adaptiveMultiplier' <= adaptiveMultiplier
        /\ adaptiveMultiplier' > Scale =>
              /\ 10 * adaptiveMultiplier' - 9 * adaptiveMultiplier <= 5
              /\ 9 * adaptiveMultiplier - 10 * adaptiveMultiplier' <= 5
        /\ adaptiveMultiplier' = Scale => 9 * adaptiveMultiplier <= 10 * Scale + 5
        /\ resets' >= 7 => adaptiveMultiplier' = Scale

\* C7: every success notification decays the multiplier as C7_Decay says:
\* to max(1.0, previous * 0.9), monotonically down to exactly 1.0, where it
\* stays, and never by a reset in one step.
C7_SuccessDecays == [][C7_Decay]_vars

\* six successes in a row and the multiplier is still above 1.0
C7_Witness == resets = 6 /\ adaptiveMultiplier > Scale

(***************************************************************************)
(* Properties of the credential cache.                                     *)
(***************************************************************************)
Usable == token # NoToken /\ now < tokenExpiresAt - 60000

\* a credential check that finds a cached token with more than 60 s left
\* starts no exchange and leaves the token and its expiry unchanged; an
\* exchange is started only by a check that found no such token.  So of two
\* checks in a row, the second made while the token is usable, at most the
\* first issues an exchange.
C8_Check ==
    \A p \in Procs :
        /\ (pc[p] = "auth" /\ pc'[p] # "auth" /\ Usable) =>
              /\ pc'[p] = "send"
              /\ lvl'[p] = "req"
              /\ hist' = [hist EXCEPT ![p].req.checked = @ + 1]
              /\ UNCHANGED <<token, tokenExpiresAt>>
        /\ pc'[p] = "creds" => ~Usable'
        /\ (lvl[p] = "req" /\ lvl'[p] = "exch") => ~Usable

\* C8: credential reuse: a check that finds a usable cached token makes no
\* exchange and changes nothing; of two checks in a row at most one issues
\* an exchange when the second finds the token usable.
C8_CredentialReuse == [][C8_Check]_vars

\* the caller's second call passed the check without any exchange
C8_Witness ==
    \E p \in Procs :
        /\ calls.request[p] = 2
        /\ pc[p] = "send"
        /\ lvl[p] = "req"
        /\ hist[p].exch.sent = 0
        /\ Usable

\* C9: no two credential exchanges are in flight at once.
C9_SerializedRefresh == Cardinality({p \in Procs : lvl[p] = "exch"}) <= 1

\* a failed exchange raises EsetAuthenticationError and leaves the
\* cached token and its expiry as they were; a successful one replaces both
\* in one step (the expiry being now + expires_in seconds); nothing else
\* writes them.
C10_Step ==
    /\ \A p \in Procs :
          LET r == hist'[p].exch.result
              settles == lvl[p] = "exch" /\ lvl'[p] = "req"
          IN  /\ (settles /\ r # Resolved) =>
                    /\ UNCHANGED <<token, tokenExpiresAt>>
                    /\ pc'[p] = "done"
                    /\ hist'[p].req.result = EsetAuthenticationError
              /\ (settles /\ r = Resolved) =>
                    /\ token' # token
                    /\ token'.expires_in \in Lifetimes
                    /\ tokenExpiresAt' = now + token'.expires_in * 1000
                    /\ pc'[p] = "send"
    /\ (token' # token \/ tokenExpiresAt' # tokenExpiresAt) =>
          \E p \in Procs :
              lvl[p] = "exch" /\ lvl'[p] = "req" /\ hist'[p].exch.result = Resolved

\* C10: a failed exchange raises an authentication failure with the cached
\* token and expiry unchanged; a successful one replaces both together.
C10_ExchangeOutcome == [][C10_Step]_vars

\* an exchange failed while a token was cached
C10_Witness ==
    \E p \in Procs :
        /\ pc[p] = "done"
        /\ hist[p].req.result = EsetAuthenticationError
        /\ token # NoToken

\* the step in which a request's transport call is made with the cached
\* token as its bearer
C11_Attach ==
    \A p \in Procs :
        (pc[p] = "send" /\ lvl[p] = "req" /\ pc'[p] = "inflight") =>
            /\ token # NoToken
            /\ now < tokenExpiresAt - 60000

\* C11: every authenticated transport call carries a bearer token that is
\* usable (now < acquiredAt + lifetime - 60 s) when the call is made; a token
\* granted with a lifetime of 60 s or less is never attached.
C11_BearerUsable == [][C11_Attach]_vars


(***************************************************************************)
(* Properties of batchHealthCheck.                                         *)
(***************************************************************************)
Positions == DOMAIN opState
InFlight == {k \in Positions : opState[k].promise = "running"}
Started(k) == opState[k].promise # "pending"
Settled(k) == opState[k].promise = "fulfilled"
BatchOf(k) == (k - 1) \div options.batchSize
WindowOf(k) == ((k - 1) % options.batchSize) \div options.maxConcurrency
EntriesOf(id) == {j \in 1..Len(results) : results[j].deviceId = id}

\* C12: at most maxConcurrency per-device operations are in flight at any
\* time, and no operation of a window of a batch is started before every
\* operation of the previous window has settled.
C12_BoundedFanOut ==
    bpc = "await" =>
        /\ Cardinality(InFlight) <= options.maxConcurrency
        /\ \A k, m \in Positions :
              (BatchOf(k) = BatchOf(m) /\ WindowOf(k) < WindowOf(m) /\ Started(m)) => Settled(k)

\* C13: the input is cut into consecutive batches of batchSize IDs, started
\* in order: the operations started so far are those of the batches up to
\* the current one, and no operation of a batch is started before every
\* operation of every earlier batch has settled.
C13_BatchesInOrder ==
    bpc # "idle" =>
        /\ batchStart % options.batchSize = 0
        /\ \A k \in Positions :
              Started(k) <=> (bpc = "returned" \/ BatchOf(k) <= batchStart \div options.batchSize)
        /\ \A k, m \in Positions : (BatchOf(k) < BatchOf(m) /\ Started(m)) => Settled(k)

\* the second batch is running after a first batch in which a device failed
C13_Witness ==
    /\ bpc = "await"
    /\ batchStart > 0
    /\ InFlight # {}
    /\ \E k \in Positions : BatchOf(k) = 0 /\ opState[k].health \in ErrorMessages

\* C14: a per-device failure is recorded as a 'failed' entry with the
\* error's message (a success as a 'success' entry) and stops nothing: while
\* the call is suspended an operation is still in flight or the awaited
\* chunk has settled, and the call returns only after every device was
\* processed, with a result.
C14_FailuresAreRecorded ==
    /\ \A k \in Positions :
          Settled(k) =>
              \E j \in 1..Len(results) :
                  /\ results[j].deviceId = deviceIds[k]
                  /\ IF opState[k].health = "ok"
                       THEN results[j].status = "success"
                       ELSE /\ results[j].status = "failed"
                            /\ results[j].error = opState[k].health
                            /\ results[j].error \in ErrorMessages
    /\ bpc = "await" => (InFlight # {} \/ ChunkSettled)
    /\ bpc = "returned" =>
          /\ \A k \in 1..Len(deviceIds) : k \in Positions /\ Settled(k)
          /\ batchResult # NoBatchResult
          /\ batchResult.results = results

\* the call returned although the first device failed, the devices after it
\* having been processed
C14_Witness ==
    /\ bpc = "returned"
    /\ Len(deviceIds) >= 3
    /\ opState[1].health \in ErrorMessages
    /\ \E k \in Positions : k > 1 /\ opState[k].health = "ok"
    /\ \E k \in Positions : k > 1 /\ opState[k].health \in ErrorMessages

\* the input positions whose getDeviceHealth was rejected
FailedItems == {k \in 1..Len(deviceIds) : opState[k].health \in ErrorMessages}

\* the status is 'completed' iff no item failed, 'failed' iff every item
\* failed and 'partial_failure' iff some but not all items failed, for every
\* input list, the empty one included
C15_StatusIff ==
    bpc = "returned" =>
        /\ batchResult.status = "completed" <=> FailedItems = {}
        /\ batchResult.status = "failed" <=> (\A k \in 1..Len(deviceIds) : k \in FailedItems)
        /\ batchResult.status = "partial_failure" <=>
              (FailedItems # {} /\ \E k \in 1..Len(deviceIds) : k \notin FailedItems)

\* C15: the status returned is 'completed' iff no item failed (so for the
\* empty list), 'failed' iff the list is not empty and every item failed,
\* and 'partial_failure' iff some but not all items failed.
C15_StatusByFailures ==
    bpc = "returned" =>
        /\ batchResult.status \in {"completed", "failed", "partial_failure"}
        /\ batchResult.status = "completed" <=> FailedItems = {}
        /\ batchResult.status = "failed" <=>
              (Len(deviceIds) > 0 /\ \A k \in 1..Len(deviceIds) : k \in FailedItems)
        /\ batchResult.status = "partial_failure" <=>
              (FailedItems # {} /\ \E k \in 1..Len(deviceIds) : k \notin FailedItems)

\* every item of a list of several failed
C15_Witness ==
    /\ bpc = "returned"
    /\ Len(deviceIds) >= 2
    /\ batchResult.status = "failed"
    /\ batchResult.progress.failed = Len(deviceIds)

\* C16: when the call returns, every input ID has exactly one entry in
\* results and results has no other entry; total = number of input IDs =
\* processed; succeeded + failed = processed, failed being the number of
\* devices whose operation failed.
C16_ResultAccounting ==
    bpc = "returned" =>
        /\ \A k \in 1..Len(deviceIds) : Cardinality(EntriesOf(deviceIds[k])) = 1
        /\ \A j \in 1..Len(results) : \E k \in 1..Len(deviceIds) : results[j].deviceId = deviceIds[k]
        /\ batchResult.results = results
        /\ batchResult.progress.total = Len(deviceIds)
        /\ batchResult.progress.processed = Len(deviceIds)
        /\ batchResult.progress.succeeded + batchResult.progress.failed =
              batchResult.progress.processed
        /\ batchResult.progress.failed = Cardinality(FailedItems)

\* several batches, failures scattered over them: partial_failure
C16_Witness ==
    /\ bpc = "returned"
    /\ Len(deviceIds) > options.batchSize
    /\ batchResult.status = "partial_failure"
    /\ batchResult.progress.failed = 2
    /\ batchResult.progress.succeeded = Len(deviceIds) - 2
    /\ \E k, m \in FailedItems : BatchOf(k) # BatchOf(m)

(***************************************************************************)
(* Properties of performHealthCheck.                                       *)
(***************************************************************************)
Returned == hpc = "returned"
WithRecord == {k \in DOMAIN fetched : fetched[k].state = "ok"}
WithoutRecord == {k \in DOMAIN fetched : fetched[k].state = "null"}
Record(k) == fetched[k].health
Found(k, type) ==
    {j \in 1..Len(healthResult.issues) :
        /\ healthResult.issues[j].deviceId = devices[k].uuid
        /\ healthResult.issues[j].issueType = type}
FoundWith(k, type, severity) ==
    {j \in Found(k, type) : healthResult.issues[j].severity = severity}
IssuesOf(k) ==
    {j \in 1..Len(healthResult.issues) : healthResult.issues[j].deviceId = devices[k].uuid}
One(violated) == IF violated THEN 1 ELSE 0
ModulesInError(k) ==
    Cardinality({j \in 1..Len(Record(k).modules) : Record(k).modules[j] = "error"})
Outdated(k) ==
    /\ Record(k).lastUpdate # NoDate
    /\ Record(k).lastUpdate > thresholds.outdatedDefinitionDays * 24

\* C17: for every device with a health record, each of the five rules
\* yields exactly one issue when it is violated and none when it is not,
\* whatever the other rules yield, with the severity the rule fixes; the
\* issues of the device are those and no other.
C17_OneIssuePerViolation ==
    Returned =>
        \A k \in WithRecord :
            /\ Cardinality(Found(k, "offline")) =
                  One(devices[k].lastSeen > thresholds.offlineDeviceHours)
            /\ Cardinality(Found(k, "outdated")) = One(Outdated(k))
            /\ Cardinality(Found(k, "threat_detected")) =
                  One(Record(k).threats >= thresholds.threatCountCritical)
            /\ Cardinality(Found(k, "protection_disabled")) = One(~Record(k).enabled)
            /\ Cardinality(Found(k, "module_error")) =
                  One(ModulesInError(k) >= thresholds.moduleErrorThreshold)
            /\ Found(k, "offline") = FoundWith(k, "offline", "critical")
            /\ Found(k, "threat_detected") = FoundWith(k, "threat_detected", "critical")
            /\ Found(k, "protection_disabled") = FoundWith(k, "protection_disabled", "critical")
            /\ Found(k, "module_error") = FoundWith(k, "module_error", "warning")
            /\ IssuesOf(k) = Found(k, "offline") \cup Found(k, "outdated")
                                \cup Found(k, "threat_detected")
                                \cup Found(k, "protection_disabled")
                                \cup Found(k, "module_error")

\* a device 30 hours offline, threshold 24, nothing else violated: exactly
\* one issue, offline / critical
C17_Witness ==
    /\ Returned
    /\ thresholds.offlineDeviceHours = 24
    /\ \E k \in WithRecord :
          /\ devices[k].lastSeen = 30
          /\ ~Outdated(k)
          /\ Record(k).threats < thresholds.threatCountCritical
          /\ Record(k).enabled
          /\ ModulesInError(k) < thresholds.moduleErrorThreshold
          /\ Cardinality(IssuesOf(k)) = 1
          /\ Cardinality(FoundWith(k, "offline", "critical")) = 1

\* C18: the outdated issue is critical exactly when the definitions are
\* older than twice the threshold, warning when older than the threshold
\* but not than twice it, and absent at or below the threshold (threshold 7:
\* 20 days critical, 10 and 14 days warning, 7 days none).
C18_OutdatedSeverity ==
    Returned =>
        \A k \in WithRecord :
            LET age == Record(k).lastUpdate
                days == thresholds.outdatedDefinitionDays
            IN  /\ (age # NoDate /\ age > 2 * days * 24) =>
                      /\ Cardinality(FoundWith(k, "outdated", "critical")) = 1
                      /\ Cardinality(Found(k, "outdated")) = 1
                /\ (age # NoDate /\ age > days * 24 /\ age <= 2 * days * 24) =>
                      /\ Cardinality(FoundWith(k, "outdated", "warning")) = 1
                      /\ Cardinality(Found(k, "outdated")) = 1
                /\ (age = NoDate \/ age <= days * 24) => Found(k, "outdated") = {}
                /\ days = 7 =>
                      /\ age = 20 * 24 => FoundWith(k, "outdated", "critical") # {}
                      /\ age \in {10 * 24, 14 * 24} => FoundWith(k, "outdated", "warning") # {}
                      /\ age = 7 * 24 => Found(k, "outdated") = {}

\* definitions exactly twice the threshold old: warning
C18_Witness ==
    /\ Returned
    /\ \E k \in WithRecord :
          /\ Record(k).lastUpdate = 2 * thresholds.outdatedDefinitionDays * 24
          /\ FoundWith(k, "outdated", "warning") # {}

\* C19: a device whose health fetch failed has no issue and no detail, and
\* is not tallied; the failure of a health fetch never makes the call
\* fail; the result covers exactly the devices whose fetch succeeded.
C19_FailedFetchExcluded ==
    /\ hpc = "thrown" => fetched = <<>>
    /\ Returned =>
          /\ healthResult.returned
          /\ \A k \in WithoutRecord :
                /\ IssuesOf(k) = {}
                /\ \A j \in 1..Len(healthResult.deviceDetails) :
                      healthResult.deviceDetails[j].uuid # devices[k].uuid
          /\ \A k \in WithRecord :
                Cardinality({j \in 1..Len(healthResult.deviceDetails) :
                                healthResult.deviceDetails[j] = Record(k)}) = 1
          /\ Len(healthResult.deviceDetails) = Cardinality(WithRecord)
          /\ healthResult.summary.healthyDevices + healthResult.summary.warningDevices
                + healthResult.summary.criticalDevices = Cardinality(WithRecord)
          /\ healthResult.summary.totalDevices = Len(devices)

\* every health fetch failed and the call returned
C19_Witness ==
    /\ Returned
    /\ Len(devices) = 2
    /\ WithoutRecord = DOMAIN fetched
    /\ healthResult.deviceDetails = <<>>
    /\ healthResult.issues = <<>>

\* C20: every fetched device is tallied once, under its platform-reported
\* tier: each tier's count is the number of records of that tier, whatever
\* issues the rules produced.
C20_TallyByReportedTier ==
    Returned =>
        /\ healthResult.summary.healthyDevices =
              Cardinality({k \in WithRecord : Record(k).overallHealth = "healthy"})
        /\ healthResult.summary.warningDevices =
              Cardinality({k \in WithRecord : Record(k).overallHealth = "warning"})
        /\ healthResult.summary.criticalDevices =
              Cardinality({k \in WithRecord : Record(k).overallHealth = "critical"})
        /\ healthResult.summary.healthyDevices + healthResult.summary.warningDevices
              + healthResult.summary.criticalDevices = Cardinality(WithRecord)

\* a device reported healthy is tallied healthy although a rule found a
\* critical issue for it
C20_Witness ==
    /\ Returned
    /\ \E k \in WithRecord :
          /\ Record(k).overallHealth = "healthy"
          /\ \E j \in IssuesOf(k) : healthResult.issues[j].severity = "critical"
          /\ healthResult.summary.healthyDevices = 1
          /\ healthResult.summary.criticalDevices = 0

(***************************************************************************)
(* Properties of the health rules.                                         *)
(***************************************************************************)

\* C21: evaluating the same device snapshot, health record and thresholds
\* twice yields identical issues (nothing else is an input of the rules).
C21_RulesIdempotent ==
    \A i, j \in DOMAIN evaluations : evaluations[i].issues = evaluations[j].issues

(***************************************************************************)
(* Properties of the task operations.                                      *)
(***************************************************************************)
Workflow == created # <<>>
Input == created[1].ids
InputIds == {Input[i] : i \in DOMAIN Input}
Ended == wpc \in {"returned", "thrown"}

\* C22: when some but not all devices failed to uninstall, the reinstall task
\* is created for exactly the input IDs without a failed row, in input order,
\* and only after the uninstall task was observed completed.
C22_ReinstallTargets ==
    /\ Len(created) <= 2
    /\ Len(created) = 2 =>
          /\ created[1].taskType = "software_uninstall"
          /\ created[2].taskType = "software_install"
          /\ {created[2].ids[i] : i \in DOMAIN created[2].ids} = InputIds \ rows.failed
          /\ \A i, j \in DOMAIN created[2].ids : i < j => created[2].ids[i] < created[2].ids[j]
          /\ observed = "completed"
    /\ ( /\ Workflow
         /\ wpc \in {"reinstalling", "returned"}
         /\ InputIds \cap rows.failed # {}
         /\ ~(InputIds \subseteq rows.failed) ) => Len(created) = 2

\* of three devices the second failed: the reinstall targets the first and third
C22_Witness ==
    /\ Len(created) = 2
    /\ Len(created[1].ids) = MaxTargets
    /\ rows.failed = {2}
    /\ created[2].ids = <<1, 3>>
    /\ wpc = "returned"

\* C23 (as stated): if every device reports uninstall failure, no reinstall
\* task is created and the call returns normally with a null reinstall.
C23_AllFailedReturnsNull ==
    ( /\ Workflow /\ rows.known /\ InputIds \subseteq rows.failed
      /\ Ended /\ taskOutcome.value # "EsetApiError" ) =>
        /\ Len(created) = 1
        /\ wpc = "returned"
        /\ taskOutcome.reinstallTask = "null"

\* C23 (amended): if every device reports uninstall failure, no reinstall
\* task is created; the call returns normally with a null reinstall when the
\* uninstall task was observed completed, and throws EsetTaskError when it
\* was observed failed or cancelled.
C23_AllFailedNoReinstall ==
    (Workflow /\ rows.known /\ InputIds \subseteq rows.failed) =>
        /\ Len(created) = 1
        /\ wpc = "returned" => (observed = "completed" /\ taskOutcome.reinstallTask = "null")
        /\ (wpc = "thrown" /\ taskOutcome.value # "EsetApiError") =>
              (observed # "completed" /\ taskOutcome.value = "EsetTaskError")
        /\ (Ended /\ observed = "completed" /\ taskOutcome.value # "EsetApiError") =>
              wpc = "returned"

\* both devices failed to uninstall, the task completed: null reinstall
C23_Witness ==
    /\ Workflow
    /\ Len(Input) = 2
    /\ InputIds \subseteq rows.failed
    /\ observed = "completed"
    /\ wpc = "returned"
    /\ taskOutcome.reinstallTask = "null"
    /\ Len(created) = 1

\* C24: a task-polling loop ends: it honors a wall-clock timeout and reports
\* non-completion when the timeout expires.
C24_PollingEnds == (ppc \in {"polling", "sleeping"}) ~> (ppc = "done")

(***************************************************************************)
(* Properties of the audit log.                                            *)
(***************************************************************************)
ApiEntries(p) == SelectSeq(auditLog[p], LAMBDA e : e.eventType \in {"api_call", "task_created"})
AuthEntries(p) == SelectSeq(auditLog[p], LAMBDA e : e.eventType = "authentication")

\* C25: with audit logging enabled, a public operation that has ended has
\* produced one audit entry carrying its outcome: a success entry when it
\* returned, a failure entry when it threw.
C25_OutcomeAudited ==
    \A p \in Sequential :
        (auditConfig.enabled /\ op[p] # "none") =>
            /\ Len(ApiEntries(p)) = 1
            /\ ApiEntries(p)[1].action = ActionOf(op[p])
            /\ ApiEntries(p)[1].status =
                  IF hist[p].req.result = Resolved THEN "success" ELSE "failure"

\* C26: with audit logging enabled, every credential exchange that has ended
\* has emitted exactly one authentication entry (so a check that reuses the
\* cached token emits none): a success entry recording the granted lifetime
\* and nothing else, or a failure entry recording the error and nothing else.
C26_ExchangeAudited ==
    \A p \in Sequential :
        LET ended == hist[p].req.exchanges - (IF lvl[p] = "exch" THEN 1 ELSE 0)
            a == AuthEntries(p)
        IN  /\ ~auditConfig.enabled => auditLog[p] = <<>>
            /\ auditConfig.enabled =>
                  /\ Len(a) = ended
                  /\ \A i \in DOMAIN a :
                        \/ /\ a[i].status = "success"
                           /\ a[i].action = "oauth2_token_acquired"
                           /\ DOMAIN a[i].details = {"expiresIn"}
                           /\ a[i].details.expiresIn \in Lifetimes
                        \/ /\ a[i].status = "failure"
                           /\ a[i].action = "oauth2_token_failed"
                           /\ DOMAIN a[i].details = {"error"}
                  /\ (ended > 0 /\ lvl[p] = "req") =>
                        IF hist[p].exch.result = Resolved
                          THEN /\ a[ended].status = "success"
                               /\ a[ended].details.expiresIn = token.expires_in
                          ELSE a[ended].status = "failure"

\* two credential checks, one exchange granting 70 s, one entry
C26_Witness ==
    /\ auditConfig.enabled
    /\ hist["a"].req.checked = 2
    /\ hist["a"].req.exchanges = 1
    /\ Len(AuthEntries("a")) = 1
    /\ AuthEntries("a")[1].status = "success"
    /\ AuthEntries("a")[1].details.expiresIn = 70

(***************************************************************************)
(* Properties of the order of the steps of an attempt.                     *)
(***************************************************************************)

\* C27: in a request that is not the exchange, every attempt is admitted by
\* the limiter, then checks the credential, then calls the transport: at the
\* transport call of attempt a the request has completed a + 1 acquires and
\* a + 1 credential checks, and transport calls never outnumber admissions.
C27_AdmissionBeforeTransport ==
    \A p \in Sequential :
        LET h == hist[p].req
            a == attempt[p].req
        IN  /\ h.sent <= h.checked
            /\ h.checked <= h.acquired
            /\ h.acquired <= a + 1
            /\ pc[p] = "auth" => (h.acquired = a + 1 /\ h.checked = a /\ h.sent = a)
            /\ (lvl[p] = "req" /\ pc[p] = "send") =>
                  (h.acquired = a + 1 /\ h.checked = a + 1 /\ h.sent = a)
            /\ (lvl[p] = "req" /\ pc[p] = "inflight") =>
                  (h.acquired = a + 1 /\ h.checked = a + 1 /\ h.sent = a + 1)

\* the transport call of the second attempt is in flight
C27_Witness ==
    /\ lvl["a"] = "req"
    /\ pc["a"] = "inflight"
    /\ attempt["a"].req = 1
    /\ hist["a"].req.sent = 2
    /\ hist["a"].req.acquired = 2
    /\ hist["a"].req.checked = 2

\* C28: the credential exchange is not admitted by the limiter: it completes
\* no acquire and never suspends in one.
C28_ExchangeSkipsAdmission ==
    \A p \in Sequential :
        /\ hist[p].exch.acquired = 0
        /\ ~(lvl[p] = "exch" /\ pc[p] = "acqWait")

(***************************************************************************)
(* Properties of the limiter in the pipeline and under concurrent load.    *)
(***************************************************************************)
C29_Step ==
    \A p \in Sequential :
        IF pc[p] = "inflight" /\ pc'[p] # "inflight"
          THEN LET k == OutcomeKind(hist'[p][lvl[p]].last)
               IN  adaptiveMultiplier' =
                      CASE k = "success" -> DecayedMultiplier(adaptiveMultiplier)
                        [] k = "rate_limit" -> AdjustedMultiplier(adaptiveMultiplier, 0)
                        [] OTHER -> adaptiveMultiplier
          ELSE adaptiveMultiplier' = adaptiveMultiplier

\* C29: the multiplier changes only when a transport call settles: a success
\* decays it once, a rate-limit signal raises it once; a 4xx, a 5xx, a
\* network failure, an authentication failure and every other step (acquire
\* included) leave it unchanged.
C29_MultiplierEvents == [][C29_Step]_vars

\* raised once by a rate-limit signal, then decayed once by the success of the retry
C29_Witness ==
    /\ adaptiveMultiplier = (Scale * 3 * 9) \div (2 * 10)
    /\ hist["a"].req.sent = 2
    /\ hist["a"].req.last = Resolved

C30_Step ==
    \A p \in Procs :
        LET seen == Min(maxTokens, tokens + (now - lastRefill) * RefillPerMs)
        IN  /\ (pc[p] = "idle" /\ pc'[p] = "acqWait") =>
                  /\ seen < adaptiveMultiplier
                  /\ tokens' = seen
                  /\ effCost'[p] = adaptiveMultiplier
                  /\ wakeAt'[p] = now + CeilDiv(adaptiveMultiplier - seen, RefillPerMs)
            /\ (pc[p] = "acqWait" /\ pc'[p] = "idle") =>
                  /\ now >= wakeAt[p]
                  /\ tokens' = seen - effCost[p]

\* C30: a caller that finds too few tokens waits for the deficit it saw and,
\* its wait over, debits its cost without looking at the count again.
C30_WaitThenDebit == [][C30_Step]_vars

\* the bucket is overdrawn after two callers waited for the same instant,
\* the multiplier never having been raised
C30_Witness ==
    /\ tokens < 0
    /\ lastOp = "acquire"
    /\ calls.tuning = 0
    /\ \A p \in Procs : pc[p] = "idle" /\ wakeAt[p] > 0
    /\ wakeAt["a"] = wakeAt["b"]

(***************************************************************************)
(* Properties of task polling.                                             *)
(***************************************************************************)

\* what the polling loop that ended returned to its caller
LoopResult ==
    IF wpc = "idle" THEN taskOutcome.value
    ELSE IF wpc = "checking" THEN "true"
    ELSE "false"

C31_Step ==
    loop.kind = "wait" =>
        /\ (ppc = "polling" /\ ppc' = "sleeping") => observed' \in NonTerminal
        /\ (ppc = "polling" /\ ppc' = "done" /\ taskOutcome'.value # "EsetApiError") =>
              /\ observed' \in {"completed", "failed", "cancelled"}
              /\ LoopResult' = "true" <=> observed' = "completed"
              /\ LoopResult' = "false" <=> observed' # "completed"
        /\ (ppc = "sleeping" /\ ppc' = "polling") =>
              (observed \in NonTerminal /\ elapsed < loop.timeoutMs)
        /\ (ppc = "sleeping" /\ ppc' = "done") =>
              (LoopResult' = "false" /\ elapsed >= loop.timeoutMs)
        /\ ppc = "done" => ppc' = "done"

\* C31: waitForTaskCompletion keeps polling while the status observed is
\* created, pending_approval, approved or running, stops at the first of
\* completed, failed and cancelled, and returns true iff that status is
\* completed (false for failed, cancelled and for the timeout).
C31_TerminalStatuses == [][C31_Step]_vars

\* a direct call that slept at least once and returned true
C31_Witness ==
    /\ wpc = "idle"
    /\ loop.kind = "wait"
    /\ ppc = "done"
    /\ elapsed > 0
    /\ observed = "completed"
    /\ taskOutcome.value = "true"

\* C36: when the wait for the uninstall task ended without observing
\* completed (failed, cancelled, or 30 minutes without a terminal status),
\* uninstallAndReinstall throws EsetTaskError and has created no reinstall
\* task, whatever the result rows.
C36_UninstallNotCompleted ==
    ( /\ Workflow
      /\ ppc = "done"
      /\ observed # "completed"
      /\ taskOutcome.value # "EsetApiError" ) =>
        /\ wpc = "thrown"
        /\ taskOutcome.kind = "thrown"
        /\ taskOutcome.value = "EsetTaskError"
        /\ Len(created) = 1
        /\ created[1].taskType = "software_uninstall"

\* the uninstall task failed although no device row failed
C36_Witness ==
    /\ Workflow
    /\ Len(Input) = 2
    /\ observed = "failed"
    /\ rows.known
    /\ rows.failed = {}
    /\ wpc = "thrown"
    /\ taskOutcome.value = "EsetTaskError"

(***************************************************************************)
(* Properties of the integrity digest.                                     *)
(***************************************************************************)
SameCore(e, f) ==
    /\ e.timestamp = f.timestamp
    /\ e.eventType = f.eventType
    /\ e.user = f.user
    /\ e.action = f.action
    /\ e.resourceType = f.resourceType
    /\ e.resourceId = f.resourceId
    /\ e.status = f.status

\* wherever and after whatever they were written, two entries equal on the
\* core fields carry the same digest, and entries with the same digest are
\* equal on the core fields
C32_DigestOfCore ==
    \A p, q \in Procs :
        \A i \in DOMAIN auditLog[p], j \in DOMAIN auditLog[q] :
            SameCore(auditLog[p][i], auditLog[q][j]) <=>
                auditLog[p][i].hash = auditLog[q][j].hash

\* an entry written stays as it was written, digest included; a new entry
\* carries its digest when it is written (a caller's log is emptied when its
\* next call starts)
C32_Step ==
    \A p \in Procs :
        \/ auditLog'[p] = auditLog[p]
        \/ auditLog'[p] = <<>>
        \/ /\ Len(auditLog'[p]) = Len(auditLog[p]) + 1
           /\ \A i \in DOMAIN auditLog[p] : auditLog'[p][i].hash = auditLog[p][i].hash
           /\ \A i \in DOMAIN auditLog[p] : SameCore(auditLog'[p][i], auditLog[p][i])
           /\ auditLog'[p][Len(auditLog'[p])].timestamp = now
           /\ auditLog'[p][Len(auditLog'[p])].hash # <<>>

\* C32: the digest of an audit entry is a function of exactly its seven core
\* fields (not of its details or ipAddress, not of any earlier entry); it is
\* set when the entry is written and never changes afterwards.
C32_Digest == []C32_DigestOfCore /\ [][C32_Step]_vars

\* two exchanges succeeded at the same instant with different lifetimes:
\* entries equal on the core fields, different in their details, same digest
C32_Witness ==
    /\ Len(auditLog["a"]) > 0
    /\ Len(auditLog["b"]) > 0
    /\ auditLog["a"][1].action = "oauth2_token_acquired"
    /\ auditLog["b"][1].action = "oauth2_token_acquired"
    /\ SameCore(auditLog["a"][1], auditLog["b"][1])
    /\ auditLog["a"][1].details.expiresIn # auditLog["b"][1].details.expiresIn
    /\ auditLog["a"][1].hash = auditLog["b"][1].hash

(***************************************************************************)
(* Properties of the attempt budget and of the limiter's bounds.           *)
(***************************************************************************)

\* C33: whatever the outcomes of its attempts, one makeHttpRequest call (a
\* request or an exchange) makes at most maxRetries + 1 = 4 transport calls:
\* every retry, after a rate-limit signal as after a 5xx, takes one attempt
\* of the same counter, and the call has ended once the counter is used up.
C33_AttemptBudget ==
    \A p \in Sequential, l \in Levels :
        /\ hist[p][l].sent <= 4
        /\ MaxRetries + 1 = 4
        /\ hist[p][l].sent <= attempt[p][l] + 1
        /\ attempt[p][l] <= MaxRetries + 1
        /\ attempt[p][l] = MaxRetries + 1 =>
              (hist[p][l].result = MaxRetriesExceeded /\ (l = lvl[p] => pc[p] \in {"done", "idle"}))

\* four transport calls answered with rate-limit signals and server errors
C33_Witness ==
    /\ hist["a"].req.sent = MaxRetries + 1
    /\ hist["a"].req.kind = "mixed"
    /\ IsServerError(hist["a"].req.last)
    /\ pc["a"] = "done"

\* C34: the multiplier is between 1.0 and 2.0 in every reachable state, so
\* the effective cost of an admission is between cost and 2 * cost.
C34_MultiplierRange ==
    /\ Scale <= adaptiveMultiplier
    /\ adaptiveMultiplier <= 2 * Scale
    /\ Scale <= EffectiveCost(1)
    /\ EffectiveCost(1) <= 2 * Scale

\* a third signal in a row: the cap holds
C34_Witness ==
    /\ adaptiveMultiplier = 2 * Scale
    /\ lastOp = "adjust"
    /\ signals = 3

C35_Step ==
    LET immediate == pc["a"] = "idle" /\ pc'["a"] = "idle" /\ lastOp' = "acquire"
                        /\ calls'.acquire = calls.acquire + 1
        resumed == pc["a"] = "acqWait" /\ pc'["a"] = "idle"
        cost == IF resumed THEN effCost["a"] ELSE 1 * adaptiveMultiplier
    IN  (immediate \/ resumed) =>
            /\ cost <= maxTokens => tokens' >= 0
            /\ cost > maxTokens => tokens' < 0
            /\ cost > maxTokens => resumed

\* C35: with a single caller, the token count after a completed acquire is
\* non-negative when the effective cost does not exceed the capacity, and
\* negative when it does (the capped refill cannot close the deficit).
C35_SingleCaller == [][C35_Step]_vars

\* capacity 1, multiplier 2.0: the acquire completed and left the bucket at -1
C35_Witness ==
    /\ maxTokens = Scale
    /\ adaptiveMultiplier = 2 * Scale
    /\ lastOp = "acquire"
    /\ pc["a"] = "idle"
    /\ tokens = -Scale

(***************************************************************************)
(* Properties of the order of the results and of the end of the call.      *)
(***************************************************************************)

\* every outcome of a batch precedes every outcome of a later batch
C37_BatchOrder ==
    \A i, j \in 1..Len(results) :
        i < j => BatchOf(results[i].deviceId) <= BatchOf(results[j].deviceId)

\* the operation that settles gets the next place in the results, whatever
\* its position in the input
C37_Step ==
    \A k \in Positions :
        (bpc = "await" /\ opState[k].promise = "running" /\ opState'[k].promise = "fulfilled") =>
            /\ Len(results') = Len(results) + 1
            /\ \A j \in 1..Len(results) : results'[j] = results[j]
            /\ results'[Len(results')].deviceId = deviceIds[k]

\* C37: the results are in completion order: batch after batch, and within a
\* batch in the order the per-device operations settled, which need not be
\* the order of the input.
C37_CompletionOrder == []C37_BatchOrder /\ [][C37_Step]_vars

\* in one batch, the second device settled before the first
C37_Witness ==
    /\ bpc = "returned"
    /\ Len(results) >= 2
    /\ results[1].deviceId = 2
    /\ results[2].deviceId = 1
    /\ BatchOf(1) = BatchOf(2)

\* C38: with batchSize >= 1 and maxConcurrency >= 1 the call returns, with
\* processed = total; with batchSize 0 or maxConcurrency 0 and a non-empty
\* input it makes no progress and never returns.
C38_Termination ==
    /\ (bpc # "idle" /\ options.batchSize >= 1 /\ options.maxConcurrency >= 1)
          ~> (bpc = "returned" /\ batchResult.progress.processed = batchResult.progress.total)
    /\ []( ( /\ bpc # "idle"
             /\ options.batchSize = 0 \/ options.maxConcurrency = 0
             /\ Len(deviceIds) > 0 ) => (bpc # "returned" /\ results = <<>>) )

\* a call over three batches has returned with every device processed
C38_Witness ==
    /\ bpc = "returned"
    /\ options.batchSize = 1
    /\ batchResult.progress.total = 3
    /\ batchResult.progress.processed = 3

=============================================================================
